---- MODULE Spec2Model ----
(***************************************************************************)
(* A model of podcast_backup.py: the episode planner of backup_podcast,    *)
(* the atomic writer download_file, the two-tier embedder embed_metadata,  *)
(* the interactive error policy handle_error_interactive and the           *)
(* sequential run of backup_podcast over an archive on disk.               *)
(***************************************************************************)
EXTENDS Integers, Sequences, FiniteSets, TLC

(***************************************************************************)
(* Bounds of the model.                                                    *)
(***************************************************************************)
\* feeds of the planner specification hold 1..MaxEntries entries
MaxEntries == 3
\* publish stamps 1..MaxStamp; stamp 0 stands for published_parsed = None
MaxStamp == 3
\* publish stamps that fall on one calendar day (same tm_mday, later tm_hour)
StampsPerDay == 2
\* feeds of the run specifications hold 1..MaxRunEntries entries
MaxRunEntries == 2
\* bytes of one episode's audio
AudioBytes == 2
\* the limits a run is started with: 0 (none) to MaxLimit
MaxLimit == 1
\* threads that call download_file at the same time
MaxWorkers == 2
\* chunks of the longest response body
MaxChunks == 2
\* calls of BackupStats.increment one thread makes
MaxIncrements == 2
\* feeds of the parallel specification hold MaxParallelEntries entries
MaxParallelEntries == 3
\* manifests of the verifier specification list up to MaxVerifyEpisodes episodes
MaxVerifyEpisodes == 5
\* requests one followed setup makes, the episode artwork included
MaxFetches == 5
\* duration strings of up to MaxDurationLen characters, int durations up to MaxSeconds
MaxDurationLen == 5
MaxSeconds == 3
\* names of up to MaxNameLen characters, or a run of letters between two
\* affixes of up to MaxAffixLen; max_length from 1 to MaxLength
MaxNameLen == 4
MaxAffixLen == 2
MaxLength == 10
\* URLs of up to MaxUrlPieces pieces
MaxUrlPieces == 4
\* generate_import_feed is called with up to MaxImportEpisodes episodes
MaxImportEpisodes == 2

(***************************************************************************)
(* Program constants.                                                      *)
(***************************************************************************)
\* max_length passed by backup_podcast to sanitize_filename
TitleMaxLength == 80

VARIABLES
    feed,               \* feed.entries, in feed order
    limit,              \* the limit argument (0 stands for None)
    skip_existing,      \* the skip_existing argument
    interactive,        \* the interactive argument
    entries_with_dates, \* the planned ep_data list (the dicts the run mutates)
    pc,                 \* position of the control flow of backup_podcast
    idx,                \* index of the sequential loop of line 986
    episodes,           \* the episodes list: references into entries_with_dates
    stats,              \* the BackupStats counters
    error_decisions,    \* the global _error_decisions
    call,               \* the call of handle_error_interactive the last step made
    pending,            \* the error a blocked prompt is about, and its call site
    audio_downloaded,   \* the local audio_downloaded of line 1022
    result,             \* what backup_podcast returned ("none" while running)
    fs,                 \* the audio files present under episodes/
    manifest,           \* manifest.json on disk
    written,            \* the output files written by the current run
    fetched,            \* the planned episodes whose audio this run requested
    last_run,           \* what the previous run of this archive did
    files,              \* download_file: the directory of the destination paths
    workers,            \* download_file: the calls in progress, one per thread
    embed_call,         \* embed_metadata: one call, its codec outcomes and result
    lock,               \* BackupStats._lock: the thread that holds it (0: free)
    threads,            \* BackupStats.increment: the calling threads
    tasks,              \* backup_podcast_parallel: the download tasks and futures
    verify,             \* verify_backup: one call, its archive and its issues
    setup,              \* backup_podcast, lines 883-927: the feed fetch and the setup
    duration_call,      \* parse_duration: one call, its argument and result
    sanitize_call,      \* sanitize_filename: one call, its arguments and result
    url_call,           \* is_likely_audio_url: one call, its argument and result
    import_call,        \* generate_import_feed: one call, its arguments and the feed
    tag_call,           \* the artist tag of one embedding, its arguments and result
    compare             \* two runs on the same inputs: the inputs and the first result

planVars == <<feed, limit, entries_with_dates, pc>>
runVars == <<skip_existing, interactive, idx, episodes, stats, error_decisions,
             call, pending, audio_downloaded, result, fs, manifest, written,
             fetched, last_run>>
downloadVars == <<files, workers>>
embedVars == <<embed_call>>
statsVars == <<lock, threads>>
parallelVars == <<tasks>>
verifyVars == <<verify>>
setupVars == <<setup>>
compareVars == <<compare>>
callVars == <<url_call, import_call, tag_call>>
parseVars == <<duration_call, sanitize_call, callVars>>
sideVars == <<statsVars, parallelVars, verifyVars, setupVars, compareVars, parseVars>>
vars == <<planVars, runVars, downloadVars, embedVars, sideVars>>

(***************************************************************************)
(* Strings are sequences of one-character strings.                         *)
(***************************************************************************)
IllegalChars == {"<", ">", ":", "\"", "/", "\\", "|", "?", "*"}
Whitespace == {" ", "\t"}

RECURSIVE RemoveChars(_, _)
RemoveChars(s, bad) ==
    IF s = <<>> THEN <<>>
    ELSE IF Head(s) \in bad THEN RemoveChars(Tail(s), bad)
    ELSE <<Head(s)>> \o RemoveChars(Tail(s), bad)

\* re.sub(r'\s+', ' ', name): every run of whitespace becomes one space
RECURSIVE CollapseWhitespace(_)
CollapseWhitespace(s) ==
    IF s = <<>> THEN <<>>
    ELSE IF Head(s) \in Whitespace
         THEN IF Tail(s) # <<>> /\ Head(Tail(s)) \in Whitespace
              THEN CollapseWhitespace(Tail(s))
              ELSE <<" ">> \o CollapseWhitespace(Tail(s))
         ELSE <<Head(s)>> \o CollapseWhitespace(Tail(s))

RECURSIVE LStrip(_)
LStrip(s) == IF s # <<>> /\ Head(s) \in Whitespace THEN LStrip(Tail(s)) ELSE s

RECURSIVE RStrip(_)
RStrip(s) ==
    IF s # <<>> /\ s[Len(s)] \in Whitespace THEN RStrip(SubSeq(s, 1, Len(s) - 1)) ELSE s

Strip(s) == RStrip(LStrip(s))

ReplaceChar(s, a, b) == [i \in 1..Len(s) |-> IF s[i] = a THEN b ELSE s[i]]

\* s.rsplit('-', 1)[0]: the part before the last hyphen, all of s without one
RECURSIVE RSplitHead(_)
RSplitHead(s) ==
    IF s = <<>> THEN <<>>
    ELSE IF s[Len(s)] = "-" THEN SubSeq(s, 1, Len(s) - 1)
    ELSE IF \E i \in 1..Len(s) : s[i] = "-" THEN RSplitHead(SubSeq(s, 1, Len(s) - 1))
    ELSE s

Untitled == <<"u", "n", "t", "i", "t", "l", "e", "d">>

\* lines 177-178 left out
sanitize_filename_untruncated(name, max_length) ==
    LET stripped == RemoveChars(name, IllegalChars)
        spaced == Strip(CollapseWhitespace(stripped))
        hyphened == ReplaceChar(spaced, " ", "-")
    IN IF hyphened = <<>> THEN Untitled ELSE hyphened

sanitize_filename(name, max_length) ==
    LET stripped == RemoveChars(name, IllegalChars)
        spaced == Strip(CollapseWhitespace(stripped))
        hyphened == ReplaceChar(spaced, " ", "-")
        cut == IF Len(hyphened) > max_length
               THEN RSplitHead(SubSeq(hyphened, 1, max_length))
               ELSE hyphened
    IN IF cut = <<>> THEN Untitled ELSE cut

(***************************************************************************)
(* The feed.  An entry carries its publish stamp (0: no parsed date), its  *)
(* raw title and the kind of its enclosure URL.                            *)
(***************************************************************************)
Titles == {<<"a">>, <<"a", "?">>, <<"b">>}
UrlKinds == {"none", "bad", "ok"}

Stamps == 0..MaxStamp

\* tm_mday of a stamp; the model's dates lie in January 2000
DayOf(stamp) == ((stamp - 1) \div StampsPerDay) + 1

\* the sort key of line 936: published_parsed or (9999, 12, 31)
NoDateKey == MaxStamp + 1
SortKey(ep) == IF ep.published_parsed # 0 THEN ep.published_parsed ELSE NoDateKey

\* extract_episode_data, restricted to the fields the planner and the run read
extract_episode_data(entry, pos) ==
    [entry |-> pos,
     title |-> entry.title,
     published_parsed |-> entry.published_parsed,
     enclosure_url |-> entry.url]

\* list.sort(key=...), which is stable: insertion behind every element whose
\* key is not greater
RECURSIVE InsertSorted(_, _)
InsertSorted(s, x) ==
    IF s = <<>> THEN <<x>>
    ELSE IF SortKey(Head(s)) <= SortKey(x)
         THEN <<Head(s)>> \o InsertSorted(Tail(s), x)
         ELSE <<x>> \o s

RECURSIVE SortByDate(_)
SortByDate(s) ==
    IF s = <<>> THEN <<>>
    ELSE InsertSorted(SortByDate(SubSeq(s, 1, Len(s) - 1)), s[Len(s)])

Reversed(s) == [i \in 1..Len(s) |-> s[Len(s) + 1 - i]]

\* s[:n] for n >= 0
Take(s, n) == SubSeq(s, 1, IF n < Len(s) THEN n ELSE Len(s))

\* lines 929-938: extract every entry, then sort oldest first
SortedEntries(f) == SortByDate([i \in 1..Len(f) |-> extract_episode_data(f[i], i)])

\* lines 941-944: with a limit, keep the most recent ones
Truncate(sorted, lim) ==
    IF lim # 0 THEN Reversed(Take(Reversed(sorted), lim)) ELSE sorted

\* line 952: YYMMDD of a date in January 2000, as the number its digits spell
DatePrefix(stamp) == (2000 % 100) * 10000 + 1 * 100 + DayOf(stamp)

\* lines 947-957: filename, number and prefix of the idx-th kept entry
PlanEpisode(ep, number) ==
    LET safe_title == sanitize_filename(ep.title, TitleMaxLength)
        date_prefix == IF ep.published_parsed # 0
                       THEN DatePrefix(ep.published_parsed)
                       ELSE number
    IN [entry |-> ep.entry,
        title |-> ep.title,
        published_parsed |-> ep.published_parsed,
        enclosure_url |-> ep.enclosure_url,
        local_filename |-> <<date_prefix, safe_title>>,
        episode_number |-> number,
        date_prefix |-> date_prefix,
        audio_missing |-> FALSE,
        audio_error |-> "none"]

PlanEpisodes(f, lim) ==
    LET sorted == SortedEntries(f)
        kept == Truncate(sorted, lim)
    IN [i \in 1..Len(kept) |->
            PlanEpisode(kept[i], i)]

(***************************************************************************)
(* Errors.  An error has a type name and a message; a message is a         *)
(* sequence of phrases, and `in` on the lower-cased text is membership of  *)
(* a phrase.                                                               *)
(***************************************************************************)
NoError == [type |-> "none", msg |-> <<>>]

\* line 1004: ValueError(f"Invalid audio URL: {url_reason}")
UrlError == [type |-> "ValueError", msg |-> <<"invalid audio url">>]

\* what requests raises inside download_file
DownloadErrors == {[type |-> "HTTPError", msg |-> <<"404 client error">>]}

\* what the tag codec raises inside the two embedders
CodecErrors ==
    {[type |-> "HeaderNotFoundError", msg |-> <<"can't sync to">>],
     [type |-> "ID3NoHeaderError", msg |-> <<"not a valid">>],
     [type |-> "MutagenError", msg |-> <<"unable to save">>]}

Contains(msg, phrase) == \E i \in 1..Len(msg) : msg[i] = phrase

get_error_key(error) ==
    IF Contains(error.msg, "can't sync to") THEN "sync_to_frame"
    ELSE IF Contains(error.msg, "not a valid") THEN "invalid_file"
    ELSE error.type

(***************************************************************************)
(* embed_metadata over the outcomes of the codec: what the Full tier, the  *)
(* Simple tier and the separate artwork pass do on this file.              *)
(***************************************************************************)
Artworks == {"none", "empty", "bytes"}
CodecOutcomes == {NoError} \cup CodecErrors

\* lines 374-391 with a failure of the artwork pass raised instead of swallowed
embed_metadata_simple_art_raises(artwork_data, simple, art) ==
    IF simple # NoError
    THEN [raised |-> TRUE, error |-> simple, artwork_added |-> FALSE, art_tried |-> FALSE]
    ELSE IF artwork_data = "bytes"
         THEN [raised |-> art # NoError, error |-> art,
               artwork_added |-> (art = NoError), art_tried |-> TRUE]
         ELSE [raised |-> FALSE, error |-> NoError,
               artwork_added |-> FALSE, art_tried |-> FALSE]

\* embed_metadata_simple: the basic tags, then the artwork pass when
\* artwork_data is truthy; a failing artwork pass is swallowed (line 388)
embed_metadata_simple(artwork_data, simple, art) ==
    IF simple # NoError
    THEN [raised |-> TRUE, error |-> simple, artwork_added |-> FALSE, art_tried |-> FALSE]
    ELSE IF artwork_data = "bytes"
         THEN [raised |-> FALSE, error |-> NoError,
               artwork_added |-> (art = NoError), art_tried |-> TRUE]
         ELSE [raised |-> FALSE, error |-> NoError,
               artwork_added |-> FALSE, art_tried |-> FALSE]

\* line 406: Exception(f"Full method: {e}; Simple method: {e2}")
BothFailed(e, e2) ==
    [type |-> "Exception",
     msg |-> <<"full method: ">> \o e.msg \o <<"; simple method: ">> \o e2.msg]

embed_metadata(artwork_data, full, simple, art) ==
    IF full = NoError
    THEN [raised |-> FALSE, value |-> "full", error |-> NoError,
          tried |-> <<"full">>]
    ELSE LET r == embed_metadata_simple(artwork_data, simple, art)
             tried == <<"full", "simple">> \o (IF r.art_tried THEN <<"art">> ELSE <<>>)
         IN IF r.raised
            THEN [raised |-> TRUE, value |-> "none",
                  error |-> BothFailed(full, r.error), tried |-> tried]
            ELSE [raised |-> FALSE,
                  value |-> IF r.artwork_added THEN "simple_with_art" ELSE "simple",
                  error |-> NoError, tried |-> tried]

\* every way a call of embed_metadata can end
EmbedOutcomes ==
    {embed_metadata(a, f, s, p) :
        a \in Artworks, f \in CodecOutcomes, s \in CodecOutcomes, p \in CodecOutcomes}

(***************************************************************************)
(* The interactive error policy.                                           *)
(***************************************************************************)
NoDecisions == [k \in {} |-> "skip_all"]

Remember(mem, key, d) == [k \in DOMAIN mem \cup {key} |-> IF k = key THEN d ELSE mem[k]]

\* lines 90-98 with the remembered decisions never looked up
handle_error_interactive_forgets(error, is_interactive, mem) ==
    IF ~is_interactive THEN "skip_all" ELSE "ask"

\* lines 90-98 with a non-interactive run failing fast
handle_error_interactive_fail_fast(error, is_interactive, mem) ==
    IF ~is_interactive THEN "abort"
    ELSE IF get_error_key(error) \in DOMAIN mem THEN mem[get_error_key(error)]
    ELSE "ask"

\* lines 90-98: the value returned without a prompt, "ask" when the prompt
\* of line 101 is reached
handle_error_interactive(error, is_interactive, mem) ==
    LET error_key == get_error_key(error)
    IN IF ~is_interactive THEN "skip_all"
       ELSE IF error_key \in DOMAIN mem THEN mem[error_key]
       ELSE "ask"

Choices == {"1", "2", "3", "4", "5", "other", "EOF"}

\* lines 112-131: the value returned for one line of input ("again": the
\* loop asks once more)
ChoiceDecision(choice) ==
    CASE choice = "1" -> "skip"
      [] choice = "2" -> "skip_all"
      [] choice = "3" -> "continue"
      [] choice = "4" -> "continue"
      [] choice = "5" -> "abort"
      [] choice = "EOF" -> "abort"
      [] OTHER -> "again"

\* lines 114-126 with every answer remembered
ChoiceMemoryOfAll(choice, error, mem) ==
    CASE choice \in {"1", "2", "3", "4", "5"} ->
            Remember(mem, get_error_key(error), ChoiceDecision(choice))
      [] OTHER -> mem

\* lines 118 and 123: what the choice stores in _error_decisions
ChoiceMemory(choice, error, mem) ==
    CASE choice = "2" -> Remember(mem, get_error_key(error), "skip_all")
      [] choice = "4" -> Remember(mem, get_error_key(error), "continue")
      [] OTHER -> mem

(***************************************************************************)
(* BackupStats.                                                            *)
(***************************************************************************)
ZeroStats ==
    [downloaded |-> 0, skipped_existing |-> 0, metadata_only |-> 0,
     errors |-> 0, bytes_downloaded |-> 0]

increment(st, field_name, value) == [st EXCEPT ![field_name] = @ + value]

(***************************************************************************)
(* One run of backup_podcast, sequential path.                             *)
(***************************************************************************)
NoManifest == [exists |-> FALSE, episodes |-> <<>>]
NoPending == [site |-> "none", error |-> NoError]
NoCall == [key |-> "none", prompted |-> FALSE, choice |-> "none", returned |-> "none"]
NoRun == [valid |-> FALSE, limit |-> 0, complete |-> FALSE, filenames |-> <<>>]

Limits == 0..MaxLimit

Filenames(ewd) == [i \in 1..Len(ewd) |-> ewd[i].local_filename]

\* the validator's verdict on the enclosure URL of an episode
UrlAccepted(url) == url = "ok"

\* estimate_download_size: the planned episodes whose file is not on disk
ToDownload(ewd, present) ==
    Cardinality({i \in 1..Len(ewd) : ewd[i].local_filename \notin present})

\* line 1024 with the file looked for outside episodes/
AlreadyThereWrongDir(path) == FALSE

\* line 1024: skip_existing and audio_path.exists()
AlreadyThere(path) == skip_existing /\ path \in fs

\* the run's local state, as the record the steps below update
Cur ==
    [pc |-> pc, idx |-> idx, episodes |-> episodes, ewd |-> entries_with_dates,
     stats |-> stats, audio_downloaded |-> audio_downloaded, result |-> result]

Apply(r) ==
    /\ pc' = r.pc
    /\ idx' = r.idx
    /\ episodes' = r.episodes
    /\ entries_with_dates' = r.ewd
    /\ stats' = r.stats
    /\ audio_downloaded' = r.audio_downloaded
    /\ result' = r.result

\* ep_data['audio_missing'] = True; ep_data['audio_error'] = text
MarkMissing(ewd, i, text) ==
    [ewd EXCEPT ![i].audio_missing = TRUE, ![i].audio_error = text]

\* `continue`: on to the next episode
NextEpisode(c) == [c EXCEPT !.pc = "episode", !.idx = c.idx + 1]

\* the abort branches with `continue` in place of `return False`
AbortedGoesOn(c) == [c EXCEPT !.pc = "episode", !.idx = c.idx + 1]

\* `return False` after "Backup aborted by user."
Aborted(c) == [c EXCEPT !.pc = "done", !.result = "failure"]

\* line 1085, then the next episode
Appended(c) == NextEpisode([c EXCEPT !.episodes = Append(c.episodes, c.idx)])

\* lines 1008-1019 with 'continue' going on to the download
AfterUrlDecisionDownloads(c, d) ==
    IF d = "abort" THEN Aborted(c)
    ELSE IF d \in {"skip", "skip_all"} THEN NextEpisode(c)
    ELSE [c EXCEPT !.pc = "download", !.audio_downloaded = FALSE]

\* lines 1008-1019: after the decision on a rejected URL
AfterUrlDecision(c, d) ==
    IF d = "abort" THEN Aborted(c)
    ELSE IF d \in {"skip", "skip_all"} THEN NextEpisode(c)
    ELSE Appended([c EXCEPT !.ewd = MarkMissing(c.ewd, c.idx, "Invalid URL")])

\* lines 1039-1050 with 'continue' not flagging the episode
AfterDownloadDecisionUnflagged(c, d, error) ==
    IF d = "abort" THEN Aborted(c)
    ELSE IF d \in {"skip", "skip_all"}
         THEN NextEpisode([c EXCEPT !.stats = increment(c.stats, "errors", 1)])
    ELSE [c EXCEPT !.stats = increment(c.stats, "metadata_only", 1),
                   !.audio_downloaded = FALSE,
                   !.pc = "embed"]

\* lines 1039-1050: after the decision on a failed download
AfterDownloadDecision(c, d, error) ==
    IF d = "abort" THEN Aborted(c)
    ELSE IF d \in {"skip", "skip_all"}
         THEN NextEpisode([c EXCEPT !.stats = increment(c.stats, "errors", 1)])
    ELSE [c EXCEPT !.ewd = MarkMissing(c.ewd, c.idx, error.type),
                   !.stats = increment(c.stats, "metadata_only", 1),
                   !.audio_downloaded = FALSE,
                   !.pc = "embed"]

\* lines 1078-1085: after the decision on a failed embedding
AfterEmbedDecision(c, d) ==
    IF d = "abort" THEN Aborted(c) ELSE Appended(c)

AfterDecision(site, c, d, error) ==
    CASE site = "url" -> AfterUrlDecision(c, d)
      [] site = "download" -> AfterDownloadDecision(c, d, error)
      [] OTHER -> AfterEmbedDecision(c, d)

\* a call of handle_error_interactive from `site`: either it returns at once
\* and the run goes on, or it blocks at the prompt
Handle(site, c, error) ==
    LET d == handle_error_interactive(error, interactive, error_decisions)
    IN IF d = "ask"
       THEN /\ Apply([c EXCEPT !.pc = "prompt"])
            /\ pending' = [site |-> site, error |-> error]
            /\ call' = [key |-> get_error_key(error), prompted |-> TRUE,
                        choice |-> "none", returned |-> "none"]
       ELSE /\ Apply(AfterDecision(site, c, d, error))
            /\ pending' = pending
            /\ call' = [key |-> get_error_key(error), prompted |-> FALSE,
                        choice |-> "none", returned |-> d]

\* the variables of the other specifications
DownloadIdle ==
    /\ files = <<>>
    /\ workers = <<>>

EmbedIdle == embed_call = <<>>

StatsIdle ==
    /\ lock = 0
    /\ threads = <<>>

ParallelIdle == tasks = <<>>

VerifyIdle == verify = <<>>

SetupIdle == setup = <<>>
CompareIdle == compare = <<>>

CallsIdle ==
    /\ url_call = <<>>
    /\ import_call = <<>>
    /\ tag_call = <<>>

ParseIdle ==
    /\ duration_call = <<>>
    /\ sanitize_call = <<>>
    /\ CallsIdle

SideIdle ==
    /\ StatsIdle
    /\ ParallelIdle
    /\ VerifyIdle
    /\ SetupIdle
    /\ CompareIdle
    /\ ParseIdle

RunIdle ==
    /\ skip_existing = TRUE
    /\ interactive = TRUE
    /\ idx = 1
    /\ episodes = <<>>
    /\ stats = ZeroStats
    /\ error_decisions = NoDecisions
    /\ call = NoCall
    /\ pending = NoPending
    /\ audio_downloaded = FALSE
    /\ result = "none"
    /\ fs = {}
    /\ manifest = NoManifest
    /\ written = {}
    /\ fetched = {}
    /\ last_run = NoRun

PlanIdle ==
    /\ feed = <<>>
    /\ limit = 0
    /\ entries_with_dates = <<>>
    /\ pc = "idle"

RunEntries == [published_parsed : {0, 1}, title : {<<"a">>}, url : UrlKinds]

RunFeeds == UNION {[1..n -> RunEntries] : n \in 1..MaxRunEntries}

Init ==
    /\ feed \in RunFeeds
    /\ limit = 0
    /\ entries_with_dates = <<>>
    /\ pc = "idle"
    /\ RunIdle
    /\ DownloadIdle
    /\ EmbedIdle
    /\ SideIdle

\* lines 871-967: a new run resets the decisions and the counters, then
\* extracts, sorts, truncates and names the episodes
Begin(lim, skip, inter) ==
    /\ limit' = lim
    /\ skip_existing' = skip
    /\ interactive' = inter
    /\ entries_with_dates' = PlanEpisodes(feed, lim)
    /\ error_decisions' = NoDecisions
    /\ stats' = ZeroStats
    /\ episodes' = <<>>
    /\ idx' = 1
    /\ call' = NoCall
    /\ pending' = NoPending
    /\ audio_downloaded' = FALSE
    /\ result' = "none"
    /\ written' = {}
    /\ fetched' = {}
    /\ pc' = "confirm"
    /\ UNCHANGED <<feed, fs, manifest, downloadVars, embedVars, sideVars>>

\* the first run of an archive
StartRun ==
    /\ pc = "idle"
    /\ \E lim \in Limits, skip \in BOOLEAN, inter \in BOOLEAN : Begin(lim, skip, inter)
    /\ UNCHANGED last_run

\* a later run over the archive the previous run left
RunAgain ==
    /\ pc = "done"
    /\ \E lim \in Limits, skip \in BOOLEAN, inter \in BOOLEAN : Begin(lim, skip, inter)
    /\ last_run' = [valid |-> TRUE, limit |-> limit,
                    complete |-> /\ result = "success"
                                 /\ \A i \in 1..Len(entries_with_dates) :
                                        entries_with_dates[i].local_filename \in fs,
                    filenames |-> Filenames(entries_with_dates)]

\* lines 969-974: the user answers the confirmation with something else
\* than '', 'y' or 'yes'
ConfirmDeclined ==
    /\ pc = "confirm"
    /\ ToDownload(entries_with_dates, fs) > 0
    /\ interactive
    /\ pc' = "done"
    /\ result' = "failure"
    /\ call' = NoCall
    /\ UNCHANGED <<feed, limit, entries_with_dates, skip_existing, interactive, idx,
                   episodes, stats, error_decisions, pending, audio_downloaded,
                   fs, manifest, written, fetched, last_run, downloadVars, embedVars, sideVars>>

\* line 970: the input is closed at the confirmation; input() raises
\* EOFError, which nothing catches
ConfirmEOF ==
    /\ pc = "confirm"
    /\ ToDownload(entries_with_dates, fs) > 0
    /\ interactive
    /\ pc' = "done"
    /\ result' = "raised"
    /\ call' = NoCall
    /\ UNCHANGED <<feed, limit, entries_with_dates, skip_existing, interactive, idx,
                   episodes, stats, error_decisions, pending, audio_downloaded,
                   fs, manifest, written, fetched, last_run, downloadVars, embedVars, sideVars>>

\* lines 969-986: no confirmation is asked, or it is given
BeginSequential ==
    /\ pc = "confirm"
    /\ pc' = "episode"
    /\ call' = NoCall
    /\ UNCHANGED <<feed, limit, entries_with_dates, skip_existing, interactive, idx,
                   episodes, stats, error_decisions, pending, audio_downloaded,
                   result, fs, manifest, written, fetched, last_run, downloadVars,
                   embedVars, sideVars>>

\* lines 986-1019: the enclosure URL of the next episode
CheckUrl ==
    /\ pc = "episode"
    /\ idx <= Len(entries_with_dates)
    /\ LET url == entries_with_dates[idx].enclosure_url
       IN IF url = "none"
          THEN /\ Apply(NextEpisode(Cur))
               /\ call' = NoCall
               /\ UNCHANGED pending
          ELSE IF ~UrlAccepted(url)
          THEN Handle("url", Cur, UrlError)
          ELSE /\ Apply([Cur EXCEPT !.pc = "download", !.audio_downloaded = FALSE])
               /\ call' = NoCall
               /\ UNCHANGED pending
    /\ UNCHANGED <<feed, limit, skip_existing, interactive, error_decisions,
                   fs, manifest, written, fetched, last_run, downloadVars, embedVars, sideVars>>

\* lines 1024-1027: the file is there and skip_existing is on
SkipExisting ==
    /\ pc = "download"
    /\ AlreadyThere(entries_with_dates[idx].local_filename)
    /\ Apply([Cur EXCEPT !.pc = "embed", !.audio_downloaded = TRUE,
                         !.stats = increment(stats, "skipped_existing", 1)])
    /\ call' = NoCall
    /\ UNCHANGED <<feed, limit, skip_existing, interactive, error_decisions,
                   pending, fs, manifest, written, fetched, last_run, downloadVars,
                   embedVars, sideVars>>

\* lines 1029-1036 with download_file returning -1 at line 189: the file is
\* there; the caller counts a download of -1 bytes
DownloadExisted ==
    /\ pc = "download"
    /\ ~AlreadyThere(entries_with_dates[idx].local_filename)
    /\ entries_with_dates[idx].local_filename \in fs
    /\ Apply([Cur EXCEPT !.pc = "embed", !.audio_downloaded = TRUE,
                         !.stats = increment(increment(stats, "downloaded", 1),
                                             "bytes_downloaded", -1)])
    /\ call' = NoCall
    /\ UNCHANGED <<feed, limit, skip_existing, interactive, error_decisions,
                   pending, fs, manifest, written, fetched, last_run, downloadVars,
                   embedVars, sideVars>>

\* lines 1029-1036: download_file fetches the audio and moves it into place
DownloadOk ==
    /\ pc = "download"
    /\ ~AlreadyThere(entries_with_dates[idx].local_filename)
    /\ entries_with_dates[idx].local_filename \notin fs
    /\ fetched' = fetched \cup {idx}
    /\ fs' = fs \cup {entries_with_dates[idx].local_filename}
    /\ Apply([Cur EXCEPT !.pc = "embed", !.audio_downloaded = TRUE,
                         !.stats = increment(increment(stats, "downloaded", 1),
                                             "bytes_downloaded", AudioBytes)])
    /\ call' = NoCall
    /\ UNCHANGED <<feed, limit, skip_existing, interactive, error_decisions,
                   pending, manifest, written, last_run, downloadVars, embedVars, sideVars>>

\* lines 1037-1050: download_file raises; its temporary file is removed and
\* the destination stays absent
DownloadFailed ==
    /\ pc = "download"
    /\ ~AlreadyThere(entries_with_dates[idx].local_filename)
    /\ entries_with_dates[idx].local_filename \notin fs
    /\ fetched' = fetched \cup {idx}
    /\ \E e \in DownloadErrors : Handle("download", Cur, e)
    /\ UNCHANGED <<feed, limit, skip_existing, interactive, error_decisions,
                   fs, manifest, written, last_run, downloadVars, embedVars, sideVars>>

\* lines 1063-1085: the tags are embedded when there is an audio file, and
\* the episode is appended
Embed ==
    /\ pc = "embed"
    /\ IF ~audio_downloaded
       THEN /\ Apply(Appended(Cur))
            /\ call' = NoCall
            /\ UNCHANGED pending
       ELSE \E r \in EmbedOutcomes :
               IF r.raised
               THEN Handle("embed", Cur, r.error)
               ELSE /\ Apply(Appended(Cur))
                    /\ call' = NoCall
                    /\ UNCHANGED pending
    /\ UNCHANGED <<feed, limit, skip_existing, interactive, error_decisions,
                   fs, manifest, written, fetched, last_run, downloadVars, embedVars, sideVars>>

\* lines 112-131: one line of input at the prompt
UserInput ==
    /\ pc = "prompt"
    /\ \E choice \in Choices :
        LET d == ChoiceDecision(choice)
        IN IF d = "again"
           THEN UNCHANGED <<pc, idx, episodes, entries_with_dates, stats, pending,
                            audio_downloaded, result, call, error_decisions>>
           ELSE /\ error_decisions' = ChoiceMemory(choice, pending.error, error_decisions)
                /\ call' = [call EXCEPT !.choice = choice, !.returned = d]
                /\ pending' = NoPending
                /\ Apply(AfterDecision(pending.site, Cur, d, pending.error))
    /\ UNCHANGED <<feed, limit, skip_existing, interactive, fs, manifest, written,
                   fetched, last_run, downloadVars, embedVars, sideVars>>

\* save_metadata_json with the episodes of the manifest on disk kept in front
ManifestMerged(ewd, eps) ==
    [exists |-> TRUE,
     episodes |-> manifest.episodes \o [i \in 1..Len(eps) |-> ewd[eps[i]]]]

\* save_metadata_json: the episodes list as it stands, serialised
ManifestOf(ewd, eps) ==
    [exists |-> TRUE, episodes |-> [i \in 1..Len(eps) |-> ewd[eps[i]]]]

\* lines 1087-1106: the manifest and, when asked for, the import feed
Save ==
    /\ pc = "episode"
    /\ idx > Len(entries_with_dates)
    /\ manifest' = ManifestOf(entries_with_dates, episodes)
    /\ \E generate_import \in BOOLEAN :
        written' = IF generate_import
                   THEN {"manifest.json", "import_feed.xml"}
                   ELSE {"manifest.json"}
    /\ result' = "success"
    /\ pc' = "done"
    /\ call' = NoCall
    /\ UNCHANGED <<feed, limit, entries_with_dates, skip_existing, interactive, idx,
                   episodes, stats, error_decisions, pending, audio_downloaded,
                   fs, fetched, last_run, downloadVars, embedVars, sideVars>>

Next ==
    \/ StartRun
    \/ ConfirmDeclined
    \/ ConfirmEOF
    \/ BeginSequential
    \/ CheckUrl
    \/ SkipExisting
    \/ DownloadExisted
    \/ DownloadOk
    \/ DownloadFailed
    \/ Embed
    \/ UserInput
    \/ Save

Spec == Init /\ [][Next]_vars

(***************************************************************************)
(* Runs repeated over one archive, for feeds whose enclosure URLs are all  *)
(* accepted.                                                               *)
(***************************************************************************)
RerunEntries == [published_parsed : {0, 1}, title : {<<"a">>}, url : {"ok"}]

RerunFeeds == UNION {[1..n -> RerunEntries] : n \in 1..MaxRunEntries}

InitRerun ==
    /\ feed \in RerunFeeds
    /\ limit = 0
    /\ entries_with_dates = <<>>
    /\ pc = "idle"
    /\ RunIdle
    /\ DownloadIdle
    /\ EmbedIdle
    /\ SideIdle

NextRerun ==
    \/ StartRun
    \/ RunAgain
    \/ ConfirmDeclined
    \/ ConfirmEOF
    \/ BeginSequential
    \/ CheckUrl
    \/ SkipExisting
    \/ DownloadExisted
    \/ DownloadOk
    \/ DownloadFailed
    \/ Embed
    \/ UserInput
    \/ Save

SpecRerun == InitRerun /\ [][NextRerun]_vars

(***************************************************************************)
(* The planner alone: backup_podcast up to line 957, for every feed and    *)
(* every limit.                                                            *)
(***************************************************************************)
PlanEntries == [published_parsed : Stamps, title : Titles, url : {"ok"}]

PlanFeeds == UNION {[1..n -> PlanEntries] : n \in 1..MaxEntries}

InitPlan ==
    /\ feed \in PlanFeeds
    /\ limit = 0
    /\ entries_with_dates = <<>>
    /\ pc = "start"
    /\ RunIdle
    /\ DownloadIdle
    /\ EmbedIdle
    /\ SideIdle

\* lines 929-957
Plan ==
    /\ pc = "start"
    /\ \E lim \in 0..Len(feed) :
        /\ limit' = lim
        /\ entries_with_dates' = PlanEpisodes(feed, lim)
    /\ pc' = "planned"
    /\ UNCHANGED <<feed, runVars, downloadVars, embedVars, sideVars>>

NextPlan == Plan

SpecPlan == InitPlan /\ [][NextPlan]_vars

(***************************************************************************)
(* download_file, called by MaxWorkers threads at once.  A file is the     *)
(* length of the body it was opened for and the chunks written so far.     *)
(***************************************************************************)
Workers == 1..MaxWorkers
Dests == {"a.mp3", "b.mp3"}
Lengths == 1..MaxChunks

Final(d) == <<"final", d>>
\* mkstemp: a fresh name in the directory of the destination
Temp(w) == <<"tmp", w>>
Paths == {Final(d) : d \in Dests} \cup {Temp(w) : w \in Workers}

Absent == [exists |-> FALSE, length |-> 0, chunks |-> 0]
Created(len) == [exists |-> TRUE, length |-> len, chunks |-> 0]
Complete(file) == file.exists /\ file.chunks = file.length

\* the files an earlier run left under a destination name
Earlier == {Absent, [exists |-> TRUE, length |-> 1, chunks |-> 1]}

\* lines 200-203 with the destination opened for writing
WriteTargetDest(w) == Final(workers[w].dest)

\* lines 193 and 200: the chunks go to the descriptor mkstemp returned
WriteTarget(w) == Temp(w)

\* f.write(chunk) on the file at path
Write(fl, path, len) ==
    [fl EXCEPT ![path] = [exists |-> TRUE, length |-> len, chunks |-> @.chunks + 1]]

\* shutil.move inside one directory: os.rename, which replaces the target
Rename(fl, from, to) == [fl EXCEPT ![to] = fl[from], ![from] = Absent]

\* lines 218-221 with os.unlink failing and the failure swallowed
UnlinkSwallowed(fl, path) == fl

\* os.unlink
Unlink(fl, path) == [fl EXCEPT ![path] = Absent]

FinalFiles(fl) == [d \in Dests |-> fl[Final(d)]]

InitDownload ==
    /\ PlanIdle
    /\ RunIdle
    /\ EmbedIdle
    /\ SideIdle
    /\ files \in {fl \in [Paths -> Earlier] : \A w \in Workers : fl[Temp(w)] = Absent}
    /\ workers \in [Workers -> [pc : {"start"}, dest : Dests, length : Lengths,
                               downloaded : {0}, value : {0}]]

Step(w, r) == workers' = [workers EXCEPT ![w] = r]

\* lines 188-193: the existence test, then mkstemp
Enter(w) ==
    /\ workers[w].pc = "start"
    /\ IF files[Final(workers[w].dest)].exists
       THEN /\ Step(w, [workers[w] EXCEPT !.pc = "returned", !.value = -1])
            /\ UNCHANGED files
       ELSE /\ Step(w, [workers[w] EXCEPT !.pc = "created"])
            /\ files' = [files EXCEPT ![Temp(w)] = Created(workers[w].length)]
    /\ UNCHANGED <<planVars, runVars, embedVars, sideVars>>

\* lines 196-197: the response arrives with a success status
RequestOk(w) ==
    /\ workers[w].pc = "created"
    /\ Step(w, [workers[w] EXCEPT !.pc = "streaming"])
    /\ UNCHANGED <<files, planVars, runVars, embedVars, sideVars>>

\* lines 196-197: requests.get or raise_for_status raises
RequestFails(w) ==
    /\ workers[w].pc = "created"
    /\ Step(w, [workers[w] EXCEPT !.pc = "failing"])
    /\ UNCHANGED <<files, planVars, runVars, embedVars, sideVars>>

\* lines 202-204: one chunk is written
WriteChunk(w) ==
    /\ workers[w].pc = "streaming"
    /\ workers[w].downloaded < workers[w].length
    /\ files' = Write(files, WriteTarget(w), workers[w].length)
    /\ Step(w, [workers[w] EXCEPT !.downloaded = @ + 1])
    /\ UNCHANGED <<planVars, runVars, embedVars, sideVars>>

\* line 202: iter_content raises before the body is complete
TransferFails(w) ==
    /\ workers[w].pc = "streaming"
    /\ workers[w].downloaded < workers[w].length
    /\ Step(w, [workers[w] EXCEPT !.pc = "failing"])
    /\ UNCHANGED <<files, planVars, runVars, embedVars, sideVars>>

\* lines 214-215: the body is complete; the rename, then the return
Move(w) ==
    /\ workers[w].pc = "streaming"
    /\ workers[w].downloaded = workers[w].length
    /\ files' = Rename(files, Temp(w), Final(workers[w].dest))
    /\ Step(w, [workers[w] EXCEPT !.pc = "returned", !.value = workers[w].downloaded])
    /\ UNCHANGED <<planVars, runVars, embedVars, sideVars>>

\* line 214: shutil.move raises
MoveFails(w) ==
    /\ workers[w].pc = "streaming"
    /\ workers[w].downloaded = workers[w].length
    /\ Step(w, [workers[w] EXCEPT !.pc = "failing"])
    /\ UNCHANGED <<files, planVars, runVars, embedVars, sideVars>>

\* lines 217-223: the handler removes the temporary file and re-raises
Cleanup(w) ==
    /\ workers[w].pc = "failing"
    /\ files' = Unlink(files, Temp(w))
    /\ Step(w, [workers[w] EXCEPT !.pc = "raised"])
    /\ UNCHANGED <<planVars, runVars, embedVars, sideVars>>

NextDownload ==
    \/ \E w \in Workers : Enter(w)
    \/ \E w \in Workers : RequestOk(w)
    \/ \E w \in Workers : RequestFails(w)
    \/ \E w \in Workers : WriteChunk(w)
    \/ \E w \in Workers : TransferFails(w)
    \/ \E w \in Workers : Move(w)
    \/ \E w \in Workers : MoveFails(w)
    \/ \E w \in Workers : Cleanup(w)

SpecDownload == InitDownload /\ [][NextDownload]_vars

(***************************************************************************)
(* embed_metadata, one call for every artwork argument and every outcome   *)
(* of the codec.                                                           *)
(***************************************************************************)
NoResult == [raised |-> FALSE, value |-> "none", error |-> NoError, tried |-> <<>>]

InitEmbed ==
    /\ PlanIdle
    /\ RunIdle
    /\ DownloadIdle
    /\ SideIdle
    /\ embed_call \in [artwork : Artworks, full : CodecOutcomes, simple : CodecOutcomes,
                       art : CodecOutcomes, done : {FALSE}, result : {NoResult}]

\* lines 394-406
EmbedCall ==
    /\ ~embed_call.done
    /\ embed_call' = [embed_call EXCEPT
                        !.done = TRUE,
                        !.result = embed_metadata(embed_call.artwork, embed_call.full,
                                                  embed_call.simple, embed_call.art)]
    /\ UNCHANGED <<planVars, runVars, downloadVars, sideVars>>

NextEmbed == EmbedCall

SpecEmbed == InitEmbed /\ [][NextEmbed]_vars

(***************************************************************************)
(* BackupStats.increment, called by MaxWorkers threads at once on the one  *)
(* stats object of a run.                                                  *)
(***************************************************************************)
\* the calls the parallel flow makes: increment('downloaded') and
\* increment('bytes_downloaded', n)
StatCalls ==
    {[field |-> "downloaded", value |-> 1],
     [field |-> "bytes_downloaded", value |-> AudioBytes]}

StatFields == {c.field : c \in StatCalls}

NoneApplied == [f \in StatFields |-> 0]

InitStats ==
    /\ PlanIdle
    /\ RunIdle
    /\ DownloadIdle
    /\ EmbedIdle
    /\ ParallelIdle
    /\ VerifyIdle
    /\ SetupIdle
    /\ CompareIdle
    /\ ParseIdle
    /\ lock = 0
    /\ threads = [t \in Workers |->
                    [pc |-> "idle", field |-> "downloaded", value |-> 0, read |-> 0,
                     calls |-> 0, applied |-> NoneApplied]]

\* the run's variables but stats
statsFrame == <<skip_existing, interactive, idx, episodes, error_decisions, call,
                pending, audio_downloaded, result, fs, manifest, written, fetched,
                last_run>>

otherThanStats == <<planVars, statsFrame, downloadVars, embedVars, parallelVars,
                    verifyVars, setupVars, compareVars, parseVars>>

\* line 40 without the lock
LockFreeAlways(holder) == TRUE

\* line 40: `with self._lock` enters when no thread holds the lock
LockFree(holder) == holder = 0

\* line 39: a thread calls increment(field_name, value)
CallIncrement(t) ==
    /\ threads[t].pc = "idle"
    /\ threads[t].calls < MaxIncrements
    /\ \E c \in StatCalls :
        threads' = [threads EXCEPT ![t].pc = "acquire", ![t].field = c.field,
                                   ![t].value = c.value, ![t].calls = @ + 1]
    /\ UNCHANGED <<lock, stats, otherThanStats>>

\* line 40: the lock is taken
Acquire(t) ==
    /\ threads[t].pc = "acquire"
    /\ LockFree(lock)
    /\ lock' = t
    /\ threads' = [threads EXCEPT ![t].pc = "read"]
    /\ UNCHANGED <<stats, otherThanStats>>

\* line 41: getattr(self, field_name)
ReadCounter(t) ==
    /\ threads[t].pc = "read"
    /\ threads' = [threads EXCEPT ![t].pc = "write", ![t].read = stats[threads[t].field]]
    /\ UNCHANGED <<lock, stats, otherThanStats>>

\* line 41: setattr(self, field_name, <value read> + value)
WriteCounter(t) ==
    /\ threads[t].pc = "write"
    /\ stats' = [stats EXCEPT ![threads[t].field] = threads[t].read + threads[t].value]
    /\ threads' = [threads EXCEPT ![t].pc = "release",
                                   ![t].applied[threads[t].field] = @ + threads[t].value]
    /\ UNCHANGED <<lock, otherThanStats>>

\* the end of the with block: the lock is released
Release(t) ==
    /\ threads[t].pc = "release"
    /\ lock' = 0
    /\ threads' = [threads EXCEPT ![t].pc = "idle"]
    /\ UNCHANGED <<stats, otherThanStats>>

NextStats ==
    \/ \E t \in Workers : CallIncrement(t)
    \/ \E t \in Workers : Acquire(t)
    \/ \E t \in Workers : ReadCounter(t)
    \/ \E t \in Workers : WriteCounter(t)
    \/ \E t \in Workers : Release(t)

SpecStats == InitStats /\ [][NextStats]_vars

(***************************************************************************)
(* backup_podcast_parallel: the coordinating flow and the futures of its   *)
(* thread pool, for runs started with parallel = MaxWorkers.               *)
(***************************************************************************)
NoTask == [state |-> "none", outcome |-> "none"]
Queued == [state |-> "queued", outcome |-> "none"]

ParallelEntries == [published_parsed : {0, 1}, title : {<<"a">>}, url : UrlKinds]

ParallelFeeds == [1..MaxParallelEntries -> ParallelEntries]

TaskIds == 1..MaxParallelEntries

\* the archive an earlier run left: some of the files the feed plans
InitParallel ==
    /\ feed \in ParallelFeeds
    /\ limit = 0
    /\ entries_with_dates = <<>>
    /\ pc = "idle"
    /\ skip_existing = TRUE
    /\ interactive = TRUE
    /\ idx = 1
    /\ episodes = <<>>
    /\ stats = ZeroStats
    /\ error_decisions = NoDecisions
    /\ call = NoCall
    /\ pending = NoPending
    /\ audio_downloaded = FALSE
    /\ result = "none"
    /\ fs \in SUBSET {PlanEpisodes(feed, 0)[i].local_filename : i \in 1..Len(feed)}
    /\ Cardinality(fs) <= 1
    /\ manifest = NoManifest
    /\ written = {}
    /\ fetched = {}
    /\ last_run = NoRun
    /\ DownloadIdle
    /\ EmbedIdle
    /\ StatsIdle
    /\ VerifyIdle
    /\ SetupIdle
    /\ CompareIdle
    /\ ParseIdle
    /\ tasks = <<>>

notParallelVars == <<downloadVars, embedVars, statsVars, verifyVars, setupVars, compareVars, parseVars>>

\* a run started with --non-interactive and --parallel MaxWorkers
StartParallel ==
    /\ pc = "idle"
    /\ \E lim \in Limits : Begin(lim, TRUE, FALSE)
    /\ UNCHANGED last_run

RECURSIVE Prepared(_, _)
\* lines 791-813 from the i-th episode on: st holds the ep_data dicts, the
\* episodes list, the counters and the download tasks
Prepared(i, st) ==
    IF i > Len(st.ewd) THEN st
    ELSE IF st.ewd[i].enclosure_url = "none" THEN Prepared(i + 1, st)
    ELSE IF ~UrlAccepted(st.ewd[i].enclosure_url)
         THEN Prepared(i + 1, [st EXCEPT !.ewd = MarkMissing(st.ewd, i, "Invalid URL"),
                                         !.episodes = Append(@, i),
                                         !.stats = increment(@, "metadata_only", 1)])
    ELSE IF st.ewd[i].local_filename \in fs
         THEN Prepared(i + 1, [st EXCEPT !.stats = increment(@, "skipped_existing", 1),
                                         !.episodes = Append(@, i)])
    ELSE Prepared(i + 1, [st EXCEPT !.tasks[i] = Queued])

\* lines 979-984 and 789-819: the parallel branch is taken, the tasks are
\* prepared and submitted to the pool
Dispatch ==
    /\ pc = "confirm"
    /\ MaxWorkers > 1
    /\ ToDownload(entries_with_dates, fs) > 1
    /\ LET st == Prepared(1, [ewd |-> entries_with_dates, episodes |-> <<>>,
                              stats |-> stats,
                              tasks |-> [i \in 1..Len(entries_with_dates) |-> NoTask]])
       IN /\ entries_with_dates' = st.ewd
          /\ episodes' = st.episodes
          /\ stats' = st.stats
          /\ tasks' = st.tasks
    /\ pc' = "collect"
    /\ call' = NoCall
    /\ UNCHANGED <<feed, limit, skip_existing, interactive, idx, error_decisions,
                   pending, audio_downloaded, result, fs, manifest, written, fetched,
                   last_run, notParallelVars>>

Running == {i \in DOMAIN tasks : tasks[i].state = "running"}

\* lines 237-253 with the worker embedding the tags of what it downloaded
ReturnedEmbedding(outcome) ==
    [state |-> IF outcome = "ok" THEN "embedding" ELSE "done", outcome |-> outcome]

\* lines 237-253: the worker returns its result dict, the future is done
Returned(outcome) == [state |-> "done", outcome |-> outcome]

workerFrame == <<feed, limit, entries_with_dates, pc, skip_existing, interactive, idx,
                 episodes, stats, error_decisions, call, pending, audio_downloaded,
                 result, manifest, written, last_run, notParallelVars>>

\* a pool thread takes task i and enters download_file (lines 188-193)
WorkerStart(i) ==
    /\ i \in DOMAIN tasks
    /\ tasks[i].state = "queued"
    /\ Cardinality(Running) < MaxWorkers
    /\ tasks' = [tasks EXCEPT ![i] =
                    IF entries_with_dates[i].local_filename \in fs
                    THEN Returned("existed")
                    ELSE [state |-> "running", outcome |-> "none"]]
    /\ UNCHANGED <<fs, fetched, workerFrame>>

\* download_file moves the audio into place and returns its size
WorkerOk(i) ==
    /\ i \in DOMAIN tasks
    /\ tasks[i].state = "running"
    /\ fs' = fs \cup {entries_with_dates[i].local_filename}
    /\ fetched' = fetched \cup {i}
    /\ tasks' = [tasks EXCEPT ![i] = Returned("ok")]
    /\ UNCHANGED workerFrame

\* download_file raises; line 251 keeps the message
WorkerFails(i) ==
    /\ i \in DOMAIN tasks
    /\ tasks[i].state = "running"
    /\ fetched' = fetched \cup {i}
    /\ tasks' = [tasks EXCEPT ![i] = Returned("error")]
    /\ UNCHANGED <<fs, workerFrame>>

\* line 850 with an episode whose file name is already listed left out
MergedOnce(eps, i) ==
    IF \E k \in 1..Len(eps) :
          entries_with_dates[eps[k]].local_filename = entries_with_dates[i].local_filename
    THEN eps
    ELSE Append(eps, i)

\* line 850: episodes.append(ep_data)
Merged(eps, i) == Append(eps, i)

coordinatorFrame == <<feed, limit, skip_existing, interactive, error_decisions, call,
                      pending, audio_downloaded, result, fs, manifest, written,
                      fetched, last_run, notParallelVars>>

\* lines 821-848 with a failed download counted as an error and left out
CollectSkippingFailed(i) ==
    /\ i \in DOMAIN tasks
    /\ pc = "collect"
    /\ tasks[i].state = "done"
    /\ idx' = i
    /\ CASE tasks[i].outcome = "error" ->
              /\ stats' = increment(stats, "errors", 1)
              /\ tasks' = [tasks EXCEPT ![i].state = "collected"]
              /\ pc' = "collect"
              /\ UNCHANGED <<entries_with_dates, episodes>>
         [] tasks[i].outcome = "existed" ->
              /\ episodes' = Merged(episodes, i)
              /\ tasks' = [tasks EXCEPT ![i].state = "collected"]
              /\ pc' = "collect"
              /\ UNCHANGED <<entries_with_dates, stats>>
         [] OTHER ->
              /\ stats' = increment(increment(stats, "downloaded", 1),
                                    "bytes_downloaded", AudioBytes)
              /\ tasks' = [tasks EXCEPT ![i].state = "embedding"]
              /\ pc' = "embedding"
              /\ UNCHANGED <<entries_with_dates, episodes>>
    /\ UNCHANGED coordinatorFrame

\* lines 821-848: as_completed yields the future of task i
Collect(i) ==
    /\ i \in DOMAIN tasks
    /\ pc = "collect"
    /\ tasks[i].state = "done"
    /\ idx' = i
    /\ CASE tasks[i].outcome = "error" ->
              /\ entries_with_dates' = MarkMissing(entries_with_dates, i, "HTTPError")
              /\ stats' = increment(stats, "metadata_only", 1)
              /\ episodes' = Merged(episodes, i)
              /\ tasks' = [tasks EXCEPT ![i].state = "collected"]
              /\ pc' = "collect"
         [] tasks[i].outcome = "existed" ->
              /\ episodes' = Merged(episodes, i)
              /\ tasks' = [tasks EXCEPT ![i].state = "collected"]
              /\ pc' = "collect"
              /\ UNCHANGED <<entries_with_dates, stats>>
         [] OTHER ->
              /\ stats' = increment(increment(stats, "downloaded", 1),
                                    "bytes_downloaded", AudioBytes)
              /\ tasks' = [tasks EXCEPT ![i].state = "embedding"]
              /\ pc' = "embedding"
              /\ UNCHANGED <<entries_with_dates, episodes>>
    /\ UNCHANGED coordinatorFrame

\* lines 840-850: embed_metadata returns or raises (the error is printed);
\* the episode is appended
EmbedCollected ==
    /\ pc = "embedding"
    /\ \E r \in EmbedOutcomes :
        /\ episodes' = Merged(episodes, idx)
        /\ tasks' = [tasks EXCEPT ![idx].state = "collected"]
    /\ pc' = "collect"
    /\ UNCHANGED <<idx, entries_with_dates, stats, coordinatorFrame>>

\* lines 855-868: every future was collected; the manifest and, when asked
\* for, the import feed
SaveParallel ==
    /\ pc = "collect"
    /\ \A i \in DOMAIN tasks : tasks[i].state \in {"none", "collected"}
    /\ manifest' = ManifestOf(entries_with_dates, episodes)
    /\ \E generate_import \in BOOLEAN :
        written' = IF generate_import
                   THEN {"manifest.json", "import_feed.xml"}
                   ELSE {"manifest.json"}
    /\ result' = "success"
    /\ pc' = "done"
    /\ UNCHANGED <<feed, limit, entries_with_dates, skip_existing, interactive, idx,
                   episodes, stats, error_decisions, call, pending, audio_downloaded,
                   fs, fetched, last_run, tasks, notParallelVars>>

NextParallel ==
    \/ StartParallel
    \/ Dispatch
    \/ \E i \in TaskIds : WorkerStart(i)
    \/ \E i \in TaskIds : WorkerOk(i)
    \/ \E i \in TaskIds : WorkerFails(i)
    \/ \E i \in TaskIds : Collect(i)
    \/ EmbedCollected
    \/ SaveParallel

SpecParallel == InitParallel /\ [][NextParallel]_vars

(***************************************************************************)
(* verify_backup over an archive: a manifest of up to MaxVerifyEpisodes    *)
(* episodes, each with the state of its audio file on disk.  The i-th      *)
(* episode's file name is i; 0 stands for no local_filename.               *)
(***************************************************************************)
\* what MP3(audio_path) finds: no file, a file with TIT2 and TPE1, a file
\* without them, a file the codec cannot read
FileStates == {"absent", "tagged", "untagged", "unreadable"}

EpisodeKinds ==
    {[named |-> FALSE, audio_missing |-> FALSE, file |-> "absent"],
     [named |-> TRUE, audio_missing |-> TRUE, file |-> "absent"],
     [named |-> TRUE, audio_missing |-> TRUE, file |-> "tagged"]}
    \cup [named : {TRUE}, audio_missing : {FALSE}, file : FileStates]

NoIssues ==
    [missing_files |-> <<>>, unreadable |-> <<>>, missing_metadata |-> <<>>,
     repaired |-> <<>>]

NoCheck == [episode |-> 0, repair_tried |-> FALSE, repair_ok |-> FALSE, verdict |-> "none"]

Archives ==
    UNION {[1..n -> EpisodeKinds] : n \in (MaxVerifyEpisodes - 1)..MaxVerifyEpisodes}

InitVerify ==
    /\ PlanIdle
    /\ RunIdle
    /\ DownloadIdle
    /\ EmbedIdle
    /\ StatsIdle
    /\ ParallelIdle
    /\ SetupIdle
    /\ CompareIdle
    /\ ParseIdle
    /\ \E exists \in BOOLEAN, repair \in BOOLEAN, eps \in Archives :
        /\ exists \/ (Len(eps) = MaxVerifyEpisodes /\ \A k \in 1..Len(eps) : ~eps[k].named)
        /\ verify = [pc |-> "start", manifest_exists |-> exists, repair |-> repair,
                     episodes |-> eps, i |-> 1, issues |-> NoIssues,
                     last |-> NoCheck, returned |-> "none"]

notVerifyVars == <<planVars, runVars, downloadVars, embedVars, statsVars, parallelVars,
                   setupVars, compareVars, parseVars>>

\* lines 664-708 without the test of audio_missing
VerdictIgnoringFlag(ep, repair, repair_ok) ==
    IF ~ep.named THEN "skipped"
    ELSE IF ep.file = "absent" THEN "missing_files"
    ELSE IF ep.file = "unreadable" THEN "unreadable"
    ELSE IF ep.file = "tagged" THEN "ok"
    ELSE IF repair /\ repair_ok THEN "repaired"
    ELSE "missing_metadata"

\* lines 664-708: the list the episode's file name is appended to
\* ("skipped", "ok": none)
Verdict(ep, repair, repair_ok) ==
    IF ~ep.named THEN "skipped"
    ELSE IF ep.audio_missing THEN "skipped"
    ELSE IF ep.file = "absent" THEN "missing_files"
    ELSE IF ep.file = "unreadable" THEN "unreadable"
    ELSE IF ep.file = "tagged" THEN "ok"
    ELSE IF repair /\ repair_ok THEN "repaired"
    ELSE "missing_metadata"

\* line 717 without the subtraction
total_issues_with_repaired(issues) ==
    Len(issues.missing_files) + Len(issues.unreadable) + Len(issues.missing_metadata)
        + Len(issues.repaired)

\* line 717: sum(len(v) for v in issues.values()) - len(issues['repaired'])
total_issues(issues) ==
    (Len(issues.missing_files) + Len(issues.unreadable) + Len(issues.missing_metadata)
        + Len(issues.repaired)) - Len(issues.repaired)

\* lines 635-662: the manifest is looked for and loaded
VerifyStart ==
    /\ verify.pc = "start"
    /\ verify' = IF verify.manifest_exists
                 THEN [verify EXCEPT !.pc = "scan"]
                 ELSE [verify EXCEPT !.pc = "done", !.returned = "false"]
    /\ UNCHANGED notVerifyVars

\* lines 664-708: one turn of the loop over the episodes
VerifyEpisode ==
    /\ verify.pc = "scan"
    /\ verify.i <= Len(verify.episodes)
    /\ \E repair_ok \in BOOLEAN :
        LET i == verify.i
            ep == verify.episodes[i]
            v == Verdict(ep, verify.repair, repair_ok)
            tried == v \in {"repaired", "missing_metadata"} /\ verify.repair
        IN \* the outcome of the repair is drawn only when a repair is tried
           /\ tried \/ repair_ok
           /\ verify' = [verify EXCEPT
                  !.i = i + 1,
                  !.issues = IF v \in DOMAIN verify.issues
                             THEN [@ EXCEPT ![v] = Append(@, i)]
                             ELSE @,
                  !.episodes[i].file = IF v = "repaired" THEN "tagged" ELSE @,
                  !.last = [episode |-> i, repair_tried |-> tried,
                            repair_ok |-> tried /\ repair_ok, verdict |-> v]]
    /\ UNCHANGED notVerifyVars

\* lines 710-751: the report and the result
VerifyReport ==
    /\ verify.pc = "scan"
    /\ verify.i > Len(verify.episodes)
    /\ verify' = [verify EXCEPT
                    !.pc = "done",
                    !.returned = IF total_issues(verify.issues) = 0 THEN "true" ELSE "false"]
    /\ UNCHANGED notVerifyVars

NextVerify ==
    \/ VerifyStart
    \/ VerifyEpisode
    \/ VerifyReport

SpecVerify == InitVerify /\ [][NextVerify]_vars

(***************************************************************************)
(* The start of backup_podcast, lines 884-927, step by step: the feed      *)
(* fetch, the output directory, the copy of the feed and the channel       *)
(* artwork; then the plan, and the artwork handed to embed_metadata for    *)
(* an episode (lines 1053-1068).                                           *)
(***************************************************************************)
SetupEntries == [published_parsed : {1}, title : {<<"a">>}, url : {"ok"}]

\* feeds of no entry (an empty or unparseable document) up to MaxRunEntries
SetupFeeds == UNION {[1..n -> SetupEntries] : n \in 0..MaxRunEntries}

NoArtworkChoice == [episode |-> 0, image_url |-> "none", fetch |-> "none", artwork |-> "none"]

InitSetup ==
    /\ feed \in SetupFeeds
    /\ limit = 0
    /\ entries_with_dates = <<>>
    /\ pc = "idle"
    /\ RunIdle
    /\ DownloadIdle
    /\ EmbedIdle
    /\ StatsIdle
    /\ ParallelIdle
    /\ VerifyIdle
    /\ CompareIdle
    /\ ParseIdle
    /\ \E bozo \in BOOLEAN, has_image \in BOOLEAN, dir \in BOOLEAN :
        setup = [pc |-> "start", bozo |-> bozo, has_image |-> has_image,
                 dir_exists |-> dir, made_dirs |-> FALSE, files |-> {},
                 fetches |-> <<>>, feed_saved |-> "none", cover |-> "none",
                 channel_artwork_data |-> "none", choice |-> NoArtworkChoice]

notSetupVars == <<downloadVars, embedVars, statsVars, parallelVars, verifyVars, compareVars,
                  parseVars>>

\* line 886 without the test of feed.entries
HardFailureOnBozo(bozo, entries) == bozo

\* line 886: feed.bozo and not feed.entries
HardFailure(bozo, entries) == bozo /\ entries = <<>>

\* lines 884-888: feedparser.parse, then the test of the parsed feed
FetchFeed ==
    /\ setup.pc = "start"
    /\ IF HardFailure(setup.bozo, feed)
       THEN /\ setup' = [setup EXCEPT !.pc = "failed", !.fetches = Append(@, "feed")]
            /\ result' = "failure"
       ELSE /\ setup' = [setup EXCEPT !.pc = "mkdir", !.fetches = Append(@, "feed")]
            /\ result' = result
    /\ UNCHANGED <<planVars, skip_existing, interactive, idx, episodes, stats,
                   error_decisions, call, pending, audio_downloaded, fs, manifest,
                   written, fetched, last_run, notSetupVars>>

\* lines 897-905: the output directory and episodes/ are created
MakeDirs ==
    /\ setup.pc = "mkdir"
    /\ setup' = [setup EXCEPT !.pc = "save_feed", !.dir_exists = TRUE, !.made_dirs = TRUE]
    /\ UNCHANGED <<planVars, runVars, notSetupVars>>

\* lines 910 and 529-543: save_original_feed fetches the feed again and
\* writes it, or prints a warning
SaveOriginalFeed ==
    /\ setup.pc = "save_feed"
    /\ \E ok \in BOOLEAN :
        setup' = [setup EXCEPT
                    !.pc = "artwork",
                    !.fetches = Append(@, "original_feed"),
                    !.feed_saved = IF ok THEN "ok" ELSE "failed",
                    !.files = IF ok THEN @ \cup {"original_feed.xml"} ELSE @]
    /\ UNCHANGED <<planVars, runVars, notSetupVars>>

\* lines 913-922 and 256-275: download_image returns the bytes it saved as
\* the cover, or None
ChannelArtwork ==
    /\ setup.pc = "artwork"
    /\ IF ~setup.has_image
       THEN setup' = [setup EXCEPT !.pc = "process"]
       ELSE \E ok \in BOOLEAN :
               setup' = [setup EXCEPT
                           !.pc = "process",
                           !.fetches = Append(@, "cover"),
                           !.cover = IF ok THEN "ok" ELSE "failed",
                           !.files = IF ok THEN @ \cup {"cover"} ELSE @,
                           !.channel_artwork_data = IF ok THEN "channel_bytes" ELSE "none"]
    /\ UNCHANGED <<planVars, runVars, notSetupVars>>

\* lines 925-967: the episodes are extracted, sorted, truncated and named
FinishSetup ==
    /\ setup.pc = "process"
    /\ pc = "idle"
    /\ \E lim \in Limits, skip \in BOOLEAN, inter \in BOOLEAN : Begin(lim, skip, inter)
    /\ UNCHANGED last_run

\* lines 1053-1061 with nothing to embed after a failed fetch
episode_artwork_dropped(channel_artwork_data, image_url, fetch_ok) ==
    IF image_url = "own"
    THEN IF fetch_ok THEN "episode_bytes" ELSE "none"
    ELSE channel_artwork_data

\* lines 1053-1061: ep_artwork_data for an episode with no image_url, the
\* channel's image_url or one of its own
episode_artwork(channel_artwork_data, image_url, fetch_ok) ==
    IF image_url = "own" /\ fetch_ok THEN "episode_bytes" ELSE channel_artwork_data

\* lines 1053-1068 for the i-th planned episode: the artwork passed to
\* embed_metadata
EpisodeArtwork(i) ==
    /\ pc = "confirm"
    /\ i \in 1..Len(entries_with_dates)
    /\ \E image_url \in {"none", "same", "own"}, fetch_ok \in BOOLEAN :
        /\ image_url = "own" \/ fetch_ok
        /\ setup' = [setup EXCEPT
                        !.fetches = IF image_url = "own" THEN Append(@, "episode_art") ELSE @,
                        !.choice = [episode |-> i, image_url |-> image_url,
                                    fetch |-> IF image_url # "own" THEN "none"
                                              ELSE IF fetch_ok THEN "ok" ELSE "failed",
                                    artwork |-> episode_artwork(setup.channel_artwork_data,
                                                                image_url, fetch_ok)]]
    /\ Len(setup.fetches) < MaxFetches
    /\ UNCHANGED <<planVars, runVars, notSetupVars>>

NextSetup ==
    \/ FetchFeed
    \/ MakeDirs
    \/ SaveOriginalFeed
    \/ ChannelArtwork
    \/ FinishSetup
    \/ \E i \in 1..MaxRunEntries : EpisodeArtwork(i)

SpecSetup == InitSetup /\ [][NextSetup]_vars

(***************************************************************************)
(* parse_duration, lines 409-432, on None, an int or a short string.       *)
(* "sup2" stands for the one character U+00B2 (superscript two): a digit   *)
(* for str.isdigit, not a numeral for int().                               *)
(***************************************************************************)
AsciiDigits == {"0", "1", "2", "3"}
IsDigitChars == AsciiDigits \cup {"sup2"}

DigitValue(c) == CASE c = "0" -> 0 [] c = "1" -> 1 [] c = "2" -> 2 [] c = "3" -> 3

\* str.isdigit(): not empty and every character is a digit
isdigit(s) == s # <<>> /\ \A i \in 1..Len(s) : s[i] \in IsDigitChars

RECURSIVE Decimal(_)
Decimal(s) == IF s = <<>> THEN 0 ELSE 10 * Decimal(SubSeq(s, 1, Len(s) - 1)) + DigitValue(s[Len(s)])

\* int(s) accepts surrounding whitespace, one sign and decimal digits
IntAccepts(s) ==
    LET t == Strip(s)
        body == IF t # <<>> /\ Head(t) \in {"-", "+"} THEN Tail(t) ELSE t
    IN body # <<>> /\ \A i \in 1..Len(body) : body[i] \in AsciiDigits

\* the value of int(s) where IntAccepts(s)
IntOf(s) ==
    LET t == Strip(s)
    IN IF Head(t) = "-" THEN 0 - Decimal(Tail(t))
       ELSE IF Head(t) = "+" THEN Decimal(Tail(t))
       ELSE Decimal(t)

\* s.split(':')
RECURSIVE Split(_)
Split(s) ==
    IF \A i \in 1..Len(s) : s[i] # ":" THEN <<s>>
    ELSE LET k == CHOOSE i \in 1..Len(s) : s[i] = ":" /\ \A j \in 1..(i - 1) : s[j] # ":"
         IN <<SubSeq(s, 1, k - 1)>> \o Split(SubSeq(s, k + 1, Len(s)))

ReturnsNone == [kind |-> "none", value |-> 0]
Returns(v) == [kind |-> "value", value |-> v]
RaisesValueError == [kind |-> "raised", value |-> 0]

parse_duration(duration_str) ==
    IF duration_str.type = "none" THEN ReturnsNone
    ELSE IF duration_str.type = "int" THEN Returns(duration_str.value)
    ELSE LET s == Strip(duration_str.chars)
             parts == Split(s)
         IN IF isdigit(s)
            THEN IF IntAccepts(s) THEN Returns(IntOf(s)) ELSE RaisesValueError
            ELSE IF Len(parts) = 3
            THEN IF \A i \in 1..3 : IntAccepts(parts[i])
                 THEN Returns(IntOf(parts[1]) * 3600 + IntOf(parts[2]) * 60 + IntOf(parts[3]))
                 ELSE ReturnsNone
            ELSE IF Len(parts) = 2
            THEN IF \A i \in 1..2 : IntAccepts(parts[i])
                 THEN Returns(IntOf(parts[1]) * 60 + IntOf(parts[2]))
                 ELSE ReturnsNone
            ELSE ReturnsNone

DurationChars == {"0", "3", ":", "x", " ", "-", "sup2"}

StrOf(s) == [type |-> "str", value |-> 0, chars |-> s]

DurationExamples ==
    {StrOf(<<"0", "1", ":", "0", "2", ":", "0", "3">>),
     StrOf(<<"0", "2", ":", "0", "3">>)}

DurationInputs ==
    {[type |-> "none", value |-> 0, chars |-> <<>>]}
    \cup {[type |-> "int", value |-> n, chars |-> <<>>] : n \in 0..MaxSeconds}
    \cup {StrOf(s) : s \in UNION {[1..n -> DurationChars] : n \in 0..MaxDurationLen}}
    \cup DurationExamples

InitDuration ==
    /\ PlanIdle
    /\ RunIdle
    /\ DownloadIdle
    /\ EmbedIdle
    /\ StatsIdle
    /\ ParallelIdle
    /\ VerifyIdle
    /\ SetupIdle
    /\ CompareIdle
    /\ sanitize_call = <<>>
    /\ CallsIdle
    /\ \E d \in DurationInputs : duration_call = [pc |-> "call", input |-> d, result |-> ReturnsNone]

ParseDuration ==
    /\ duration_call.pc = "call"
    /\ duration_call' = [duration_call EXCEPT !.pc = "returned",
                                              !.result = parse_duration(duration_call.input)]
    /\ UNCHANGED <<planVars, runVars, downloadVars, embedVars, statsVars, parallelVars,
                   verifyVars, setupVars, compareVars, sanitize_call, callVars>>

NextDuration == ParseDuration

SpecDuration == InitDuration /\ [][NextDuration]_vars

(***************************************************************************)
(* sanitize_filename, lines 170-179, called on names with illegal          *)
(* characters, whitespace and hyphens, some longer than max_length.        *)
(***************************************************************************)
NameChars == {"a", "-", " ", "\t", "?"}

SeqsUpTo(n) == UNION {[1..k -> NameChars] : k \in 0..n}

\* a run of letters as long as "untitled"
Padding == [i \in 1..Len(Untitled) |-> "a"]

Names ==
    SeqsUpTo(MaxNameLen)
    \cup {u \o Padding \o v : u \in SeqsUpTo(MaxAffixLen), v \in SeqsUpTo(MaxAffixLen)}

InitSanitize ==
    /\ PlanIdle
    /\ RunIdle
    /\ DownloadIdle
    /\ EmbedIdle
    /\ StatsIdle
    /\ ParallelIdle
    /\ VerifyIdle
    /\ SetupIdle
    /\ CompareIdle
    /\ duration_call = <<>>
    /\ CallsIdle
    /\ \E name \in Names, max_length \in 1..MaxLength :
        sanitize_call = [pc |-> "call", name |-> name, max_length |-> max_length,
                         result |-> <<>>]

Sanitize ==
    /\ sanitize_call.pc = "call"
    /\ sanitize_call' = [sanitize_call EXCEPT
                            !.pc = "returned",
                            !.result = sanitize_filename(sanitize_call.name,
                                                         sanitize_call.max_length)]
    /\ UNCHANGED <<planVars, runVars, downloadVars, embedVars, statsVars, parallelVars,
                   verifyVars, setupVars, compareVars, duration_call, callVars>>

NextSanitize == Sanitize

SpecSanitize == InitSanitize /\ [][NextSanitize]_vars

(***************************************************************************)
(* is_likely_audio_url, lines 134-167.  A URL is a sequence of pieces; no  *)
(* pattern or extension of the validator runs across two pieces.           *)
(***************************************************************************)
UrlPieces == {"a", "/", "media.php", "MEDIA.PHP", "pageID=", ".html", ".htm", "view=",
              ".mp3", ".MP3", ".opus", ".zip"}

\* str.lower() of a piece
Lower(piece) ==
    CASE piece = "MEDIA.PHP" -> "media.php"
      [] piece = ".MP3" -> ".mp3"
      [] piece = "pageID=" -> "pageid="
      [] OTHER -> piece

\* the patterns, extensions and the dot that occur in a piece
Within(piece) ==
    CASE piece = "media.php" -> {"media.php", "."}
      [] piece = "MEDIA.PHP" -> {"."}
      [] piece = "pageID=" -> {"pageID="}
      [] piece = ".html" -> {".html", ".htm", "."}
      [] piece = ".htm" -> {".htm", "."}
      [] piece = "view=" -> {"view="}
      [] piece = ".mp3" -> {".mp3", "."}
      [] piece = ".MP3" -> {"."}
      [] piece = ".opus" -> {".opus", "."}
      [] piece = ".zip" -> {"."}
      [] OTHER -> {}

\* text in url
In(text, url) == \E i \in 1..Len(url) : text \in Within(url[i])

audio_extensions == {".mp3", ".m4a", ".aac", ".ogg", ".wav", ".flac", ".opus"}

suspicious_patterns ==
    <<[pattern |-> "media.php", reason |-> "URL appears to be a PHP page, not an audio file"],
      [pattern |-> "pageID=", reason |-> "URL appears to be a webpage with page ID"],
      [pattern |-> ".html", reason |-> "URL appears to be an HTML page"],
      [pattern |-> ".htm", reason |-> "URL appears to be an HTML page"],
      [pattern |-> "view=", reason |-> "URL appears to be a webpage view"]>>

\* url.split('/')[-1]
RECURSIVE LastSegment(_)
LastSegment(url) ==
    IF url = <<>> \/ url[Len(url)] = "/" THEN <<>>
    ELSE LastSegment(SubSeq(url, 1, Len(url) - 1)) \o <<url[Len(url)]>>

UrlVerdict(valid, reason) == [valid |-> valid, reason |-> reason]

\* the extension test made before the patterns
is_likely_audio_url_extension_first(url) ==
    LET url_lower == [i \in 1..Len(url) |-> Lower(url[i])]
        has_audio_ext == \E ext \in audio_extensions : In(ext, url_lower)
        hits == {k \in 1..Len(suspicious_patterns) : In(suspicious_patterns[k].pattern, url)}
    IN IF url = <<>> THEN UrlVerdict(FALSE, "No URL provided")
       ELSE IF has_audio_ext THEN UrlVerdict(TRUE, "OK")
       ELSE IF hits # {}
       THEN UrlVerdict(FALSE, suspicious_patterns[CHOOSE k \in hits : \A j \in hits : k <= j].reason)
       ELSE IF In(".", LastSegment(url))
       THEN UrlVerdict(FALSE, "URL doesn't appear to have an audio file extension")
       ELSE UrlVerdict(TRUE, "OK")

is_likely_audio_url(url) ==
    LET url_lower == [i \in 1..Len(url) |-> Lower(url[i])]
        has_audio_ext == \E ext \in audio_extensions : In(ext, url_lower)
        hits == {k \in 1..Len(suspicious_patterns) : In(suspicious_patterns[k].pattern, url)}
    IN IF url = <<>> THEN UrlVerdict(FALSE, "No URL provided")
       ELSE IF hits # {}
       THEN UrlVerdict(FALSE, suspicious_patterns[CHOOSE k \in hits : \A j \in hits : k <= j].reason)
       ELSE IF ~has_audio_ext /\ In(".", LastSegment(url))
       THEN UrlVerdict(FALSE, "URL doesn't appear to have an audio file extension")
       ELSE UrlVerdict(TRUE, "OK")

Urls == UNION {[1..n -> UrlPieces] : n \in 0..MaxUrlPieces}

InitUrl ==
    /\ PlanIdle
    /\ RunIdle
    /\ DownloadIdle
    /\ EmbedIdle
    /\ StatsIdle
    /\ ParallelIdle
    /\ VerifyIdle
    /\ SetupIdle
    /\ CompareIdle
    /\ duration_call = <<>>
    /\ sanitize_call = <<>>
    /\ import_call = <<>>
    /\ tag_call = <<>>
    /\ \E url \in Urls :
        url_call = [pc |-> "call", url |-> url, result |-> UrlVerdict(FALSE, "")]

CheckAudioUrl ==
    /\ url_call.pc = "call"
    /\ url_call' = [url_call EXCEPT !.pc = "returned",
                                    !.result = is_likely_audio_url(url_call.url)]
    /\ UNCHANGED <<planVars, runVars, downloadVars, embedVars, statsVars, parallelVars,
                   verifyVars, setupVars, compareVars, duration_call, sanitize_call, import_call,
                   tag_call>>

NextUrl == CheckAudioUrl

SpecUrl == InitUrl /\ [][NextUrl]_vars

(***************************************************************************)
(* generate_import_feed, lines 565-620: the enclosure of each item.  A     *)
(* field of an episode is "absent" (no such key), "None" or a value.       *)
(***************************************************************************)
ImportEpisodes ==
    [local_filename : {"None", "f.mp3"},
     enclosure_type : {"absent", "None", "audio/mpeg", "audio/mp4"},
     enclosure_size : {"absent", "None", "123"}]

ImportLists == UNION {[1..n -> ImportEpisodes] : n \in 0..MaxImportEpisodes}

BaseUrls == {"None", "http://host"}

\* dict.get(key, default): the default stands in for a missing key only
Get(value, default) == IF value = "absent" THEN default ELSE value

NoEnclosure == [url |-> <<>>, type |-> "", length |-> ""]

\* lines 593-608: the enclosure element of one item; str(None) is "None"
import_item(ep, base_url) ==
    IF ep.local_filename = "None" THEN NoEnclosure
    ELSE [url |-> IF base_url # "None"
                  THEN <<base_url, "/", ep.local_filename>>
                  ELSE <<ep.local_filename>>,
          type |-> Get(ep.enclosure_type, "audio/mpeg"),
          length |-> Get(ep.enclosure_size, "0")]

\* lines 592-620: tostring raises TypeError on an attribute that is None,
\* before anything is written
generate_import_feed(eps, base_url) ==
    LET items == [i \in 1..Len(eps) |-> import_item(eps[i], base_url)]
    IN IF \E i \in 1..Len(items) : items[i] # NoEnclosure /\ items[i].type = "None"
       THEN [raised |-> TRUE, items |-> <<>>]
       ELSE [raised |-> FALSE, items |-> items]

InitImport ==
    /\ PlanIdle
    /\ RunIdle
    /\ DownloadIdle
    /\ EmbedIdle
    /\ StatsIdle
    /\ ParallelIdle
    /\ VerifyIdle
    /\ SetupIdle
    /\ CompareIdle
    /\ duration_call = <<>>
    /\ sanitize_call = <<>>
    /\ url_call = <<>>
    /\ tag_call = <<>>
    /\ \E eps \in ImportLists, base_url \in BaseUrls :
        import_call = [pc |-> "call", episodes |-> eps, base_url |-> base_url,
                       result |-> [raised |-> FALSE, items |-> <<>>]]

GenerateImportFeed ==
    /\ import_call.pc = "call"
    /\ import_call' = [import_call EXCEPT
                          !.pc = "returned",
                          !.result = generate_import_feed(import_call.episodes,
                                                          import_call.base_url)]
    /\ UNCHANGED <<planVars, runVars, downloadVars, embedVars, statsVars, parallelVars,
                   verifyVars, setupVars, compareVars, duration_call, sanitize_call, url_call, tag_call>>

NextImport == GenerateImportFeed

SpecImport == InitImport /\ [][NextImport]_vars

(***************************************************************************)
(* backup_podcast in either mode: after the plan, line 979 takes the       *)
(* parallel branch when parallel > 1 and more than one file is to be       *)
(* downloaded, and the sequential loop otherwise.  The archive may hold     *)
(* files of an earlier run.                                                 *)
(***************************************************************************)
InitModes ==
    /\ feed \in RunFeeds
    /\ limit = 0
    /\ entries_with_dates = <<>>
    /\ pc = "idle"
    /\ skip_existing = TRUE
    /\ interactive = TRUE
    /\ idx = 1
    /\ episodes = <<>>
    /\ stats = ZeroStats
    /\ error_decisions = NoDecisions
    /\ call = NoCall
    /\ pending = NoPending
    /\ audio_downloaded = FALSE
    /\ result = "none"
    /\ fs \in SUBSET {PlanEpisodes(feed, 0)[i].local_filename : i \in 1..Len(feed)}
    /\ manifest = NoManifest
    /\ written = {}
    /\ fetched = {}
    /\ last_run = NoRun
    /\ DownloadIdle
    /\ EmbedIdle
    /\ StatsIdle
    /\ VerifyIdle
    /\ SetupIdle
    /\ CompareIdle
    /\ ParseIdle
    /\ tasks = <<>>

NextModes ==
    \/ StartRun
    \/ ConfirmDeclined
    \/ ConfirmEOF
    \/ BeginSequential
    \/ CheckUrl
    \/ SkipExisting
    \/ DownloadExisted
    \/ DownloadOk
    \/ DownloadFailed
    \/ Embed
    \/ UserInput
    \/ Save
    \/ Dispatch
    \/ \E i \in TaskIds : WorkerStart(i)
    \/ \E i \in TaskIds : WorkerOk(i)
    \/ \E i \in TaskIds : WorkerFails(i)
    \/ \E i \in TaskIds : Collect(i)
    \/ EmbedCollected
    \/ SaveParallel

SpecModes == InitModes /\ [][NextModes]_vars

(***************************************************************************)
(* The artist tag: the episode's author as extract_episode_data records    *)
(* it (lines 460 and 470) and the text both embedding tiers write (lines   *)
(* 308 and 363).  A field is "absent" (no such key), "None", "" or a name. *)
(***************************************************************************)
TagEntries ==
    [itunes_author : {"absent", "None", "", "Ann"},
     author : {"absent", "None", "", "Bob"}]

ChannelAuthors == {"absent", "", "Chan"}

Tiers == {"full", "simple"}

\* entry.get(key): None for a missing key
GetNone(value) == IF value = "absent" THEN "None" ELSE value

\* a or b
Or(a, b) == IF a \in {"None", ""} THEN b ELSE a

\* lines 460 and 470: the 'author' of the episode record
extract_author(entry) == Or(GetNone(entry.itunes_author), GetNone(entry.author))

\* lines 308 and 363: episode.get('author', channel.get('author', 'Unknown'))
artist(episode_author, channel_author) ==
    Get(episode_author, Get(channel_author, "Unknown"))

InitTag ==
    /\ PlanIdle
    /\ RunIdle
    /\ DownloadIdle
    /\ EmbedIdle
    /\ StatsIdle
    /\ ParallelIdle
    /\ VerifyIdle
    /\ SetupIdle
    /\ CompareIdle
    /\ duration_call = <<>>
    /\ sanitize_call = <<>>
    /\ url_call = <<>>
    /\ import_call = <<>>
    /\ \E entry \in TagEntries, channel_author \in ChannelAuthors, tier \in Tiers :
        tag_call = [pc |-> "extract", entry |-> entry, channel_author |-> channel_author,
                    tier |-> tier, author |-> "absent", artist |-> "absent"]

tagFrame == <<planVars, runVars, downloadVars, embedVars, statsVars, parallelVars,
              verifyVars, setupVars, compareVars, duration_call, sanitize_call, url_call, import_call>>

\* extract_episode_data builds the episode record
ExtractAuthor ==
    /\ tag_call.pc = "extract"
    /\ tag_call' = [tag_call EXCEPT !.pc = "embed", !.author = extract_author(tag_call.entry)]
    /\ UNCHANGED tagFrame

\* embed_metadata_full or embed_metadata_simple sets the artist
EmbedArtist ==
    /\ tag_call.pc = "embed"
    /\ tag_call' = [tag_call EXCEPT !.pc = "embedded",
                                    !.artist = artist(tag_call.author, tag_call.channel_author)]
    /\ UNCHANGED tagFrame

NextTag ==
    \/ ExtractAuthor
    \/ EmbedArtist

SpecTag == InitTag /\ [][NextTag]_vars

(***************************************************************************)
(* Two non-interactive runs of backup_podcast on the same feed, the same   *)
(* archive and the same outcome of each episode's fetch: the first with    *)
(* parallel = 1, the second with parallel = MaxWorkers.                    *)
(***************************************************************************)
FetchOutcomes == {"ok", "fails"}

\* feeds of MaxRunEntries entries that are given different file names
CompareFeeds ==
    {f \in [1..MaxRunEntries -> RunEntries] :
        \A i, j \in 1..MaxRunEntries :
            i # j => PlanEpisodes(f, 0)[i].local_filename # PlanEpisodes(f, 0)[j].local_filename}

NoOutcome == [episodes |-> {}, stats |-> ZeroStats]

\* what a run leaves: the manifest's episodes with their flags, and the counters
OutcomeOfRun ==
    [episodes |-> {[local_filename |-> manifest.episodes[k].local_filename,
                    audio_missing |-> manifest.episodes[k].audio_missing] :
                        k \in 1..Len(manifest.episodes)},
     stats |-> stats]

InitCompare ==
    /\ feed \in CompareFeeds
    /\ limit = 0
    /\ entries_with_dates = <<>>
    /\ pc = "idle"
    /\ skip_existing = TRUE
    /\ interactive = FALSE
    /\ idx = 1
    /\ episodes = <<>>
    /\ stats = ZeroStats
    /\ error_decisions = NoDecisions
    /\ call = NoCall
    /\ pending = NoPending
    /\ audio_downloaded = FALSE
    /\ result = "none"
    /\ fs \in SUBSET {PlanEpisodes(feed, 0)[i].local_filename : i \in 1..Len(feed)}
    /\ manifest = NoManifest
    /\ written = {}
    /\ fetched = {}
    /\ last_run = NoRun
    /\ DownloadIdle
    /\ EmbedIdle
    /\ StatsIdle
    /\ VerifyIdle
    /\ SetupIdle
    /\ ParseIdle
    /\ tasks = <<>>
    /\ \E outcomes \in [1..MaxRunEntries -> FetchOutcomes] :
        compare = [phase |-> "first", fs0 |-> fs, outcomes |-> outcomes, first |-> NoOutcome]

\* the first run starts, non-interactive
StartFirst ==
    /\ compare.phase = "first"
    /\ pc = "idle"
    /\ \E lim \in Limits, skip \in BOOLEAN : Begin(lim, skip, FALSE)
    /\ UNCHANGED <<last_run, tasks>>

\* lines 979-986 with parallel = 1
FirstSequential ==
    /\ compare.phase = "first"
    /\ BeginSequential

\* the fetch of the episode succeeds, as the inputs say
FirstDownloadOk ==
    /\ DownloadOk
    /\ compare.outcomes[idx] = "ok"

\* the fetch of the episode fails, as the inputs say
FirstDownloadFailed ==
    /\ DownloadFailed
    /\ compare.outcomes[idx] = "fails"

\* the first run is over; the second starts on the archive as it was, with
\* the same arguments but parallel
StartSecond ==
    /\ compare.phase = "first"
    /\ pc = "done"
    /\ compare' = [compare EXCEPT !.phase = "second", !.first = OutcomeOfRun]
    /\ fs' = compare.fs0
    /\ manifest' = NoManifest
    /\ entries_with_dates' = PlanEpisodes(feed, limit)
    /\ error_decisions' = NoDecisions
    /\ stats' = ZeroStats
    /\ episodes' = <<>>
    /\ idx' = 1
    /\ call' = NoCall
    /\ pending' = NoPending
    /\ audio_downloaded' = FALSE
    /\ result' = "none"
    /\ written' = {}
    /\ fetched' = {}
    /\ pc' = "confirm"
    /\ UNCHANGED <<feed, limit, skip_existing, interactive, last_run, downloadVars,
                   embedVars, statsVars, parallelVars, verifyVars, setupVars, parseVars>>

\* lines 979-984 with parallel = MaxWorkers: the parallel branch
SecondParallel ==
    /\ compare.phase = "second"
    /\ Dispatch

SecondWorkerOk(i) ==
    /\ WorkerOk(i)
    /\ compare.outcomes[i] = "ok"

SecondWorkerFails(i) ==
    /\ WorkerFails(i)
    /\ compare.outcomes[i] = "fails"

NextCompare ==
    \/ StartFirst
    \/ FirstSequential
    \/ CheckUrl
    \/ SkipExisting
    \/ DownloadExisted
    \/ FirstDownloadOk
    \/ FirstDownloadFailed
    \/ Embed
    \/ Save
    \/ StartSecond
    \/ SecondParallel
    \/ \E i \in TaskIds : WorkerStart(i)
    \/ \E i \in TaskIds : SecondWorkerOk(i)
    \/ \E i \in TaskIds : SecondWorkerFails(i)
    \/ \E i \in TaskIds : Collect(i)
    \/ EmbedCollected
    \/ SaveParallel

SpecCompare == InitCompare /\ [][NextCompare]_vars

(***************************************************************************)
(* Termination of a run in either mode.  The steps of a run are finite     *)
(* loops (lines 817-853 and 986-1085) around calls that block: a fetch,    *)
(* and input() at the confirmation (line 970) and at the prompt (line      *)
(* 114).  Weak fairness of the run's steps says that a blocked call comes  *)
(* back: a fetch returns or fails, and the user enters a valid choice or   *)
(* closes the input (an invalid choice leaves every variable as it was, so *)
(* it is no step).                                                         *)
(***************************************************************************)
RunStep ==
    \/ ConfirmDeclined
    \/ ConfirmEOF
    \/ BeginSequential
    \/ CheckUrl
    \/ SkipExisting
    \/ DownloadExisted
    \/ DownloadOk
    \/ DownloadFailed
    \/ Embed
    \/ UserInput
    \/ Save
    \/ Dispatch
    \/ \E i \in TaskIds : WorkerStart(i)
    \/ \E i \in TaskIds : WorkerOk(i)
    \/ \E i \in TaskIds : WorkerFails(i)
    \/ \E i \in TaskIds : Collect(i)
    \/ EmbedCollected
    \/ SaveParallel

SpecTermination == InitModes /\ [][NextModes]_vars /\ WF_vars(RunStep)

(***************************************************************************)
(* Properties.                                                             *)
(***************************************************************************)
\* rank of feed entry pos in the oldest-first ordering of all entries
FullRank(pos) ==
    LET sorted == SortedEntries(feed)
    IN CHOOSE r \in 1..Len(sorted) : sorted[r].entry = pos

\* C1: every kept episode's episode_number is its 1-based rank in the
\* oldest-first ordering of all feed entries, whatever the limit.
C1_NumberIsFullRank ==
    pc = "planned" =>
        \A i \in 1..Len(entries_with_dates) :
            entries_with_dates[i].episode_number = FullRank(entries_with_dates[i].entry)

\* C2: no two episodes of one run are assigned the same local_filename.
C2_FilenamesUnique ==
    pc = "planned" =>
        \A i, j \in 1..Len(entries_with_dates) :
            i # j => entries_with_dates[i].local_filename # entries_with_dates[j].local_filename

\* the run in progress is a second run in the sense of C3: skip_existing is
\* on, the limit is the one of the previous run, and the previous run ended
\* with every planned audio file on disk
SecondRun ==
    /\ pc \notin {"idle"}
    /\ last_run.valid
    /\ last_run.complete
    /\ last_run.limit = limit
    /\ skip_existing

\* C3: a second run over an unchanged feed and a complete archive requests
\* no audio file (downloaded and bytes_downloaded stay 0, nothing fails),
\* plans the same local_filename for every episode, counts every episode it
\* reaches as already existing, and, when it succeeds, has counted all of them.
C3_SecondRunFetchesNothing ==
    SecondRun =>
        /\ fetched = {}
        /\ stats.downloaded = 0
        /\ stats.bytes_downloaded = 0
        /\ stats.errors = 0
        /\ stats.metadata_only = 0
        /\ Filenames(entries_with_dates) = last_run.filenames
        /\ stats.skipped_existing >= Len(episodes)
        /\ stats.skipped_existing <= Len(episodes) + 1
        /\ result = "success" =>
              /\ stats.skipped_existing = Len(entries_with_dates)
              /\ Len(manifest.episodes) = Len(entries_with_dates)

C3_Witness ==
    /\ SecondRun
    /\ result = "success"
    /\ Len(entries_with_dates) = MaxRunEntries
    /\ stats.skipped_existing = MaxRunEntries

\* C4: every file that exists under a destination name is completely
\* written, in every state of MaxWorkers concurrent calls of download_file.
C4_DestinationNeverPartial ==
    \A d \in Dests : files[Final(d)].exists => Complete(files[Final(d)])

\* a transfer has failed after a partial write while another thread is in
\* the middle of writing the same destination
C4_Witness ==
    \E w1, w2 \in Workers :
        /\ w1 # w2
        /\ workers[w1].dest = workers[w2].dest
        /\ workers[w1].pc = "raised"
        /\ workers[w1].downloaded >= 1
        /\ workers[w1].downloaded < workers[w1].length
        /\ workers[w2].pc = "streaming"
        /\ workers[w2].downloaded >= 1
        /\ workers[w2].downloaded < workers[w2].length

NoAudio(i) ==
    \/ entries_with_dates[i].enclosure_url = "none"
    \/ ~UrlAccepted(entries_with_dates[i].enclosure_url)
    \/ entries_with_dates[i].local_filename \notin fs

\* C6: in the manifest of a successful run, every planned episode without
\* audio is present and carries audio_missing.
C6_NoAudioStaysInManifest ==
    result = "success" =>
        \A i \in 1..Len(entries_with_dates) :
            NoAudio(i) =>
                \E j \in 1..Len(manifest.episodes) :
                    /\ manifest.episodes[j].entry = entries_with_dates[i].entry
                    /\ manifest.episodes[j].audio_missing

\* C7: when the error policy has returned abort, the run is over and has
\* failed, neither manifest.json nor import_feed.xml was written, and the
\* run takes no further step.
C7_AbortStopsTheRun ==
    /\ [](call.returned = "abort" =>
            /\ pc = "done"
            /\ result = "failure"
            /\ written = {}
            /\ ~manifest.exists)
    /\ [][call.returned # "abort"]_vars

\* an abort after an audio file was downloaded, while episodes are left to
\* process
C7_Witness ==
    /\ call.returned = "abort"
    /\ idx < Len(entries_with_dates)
    /\ fs # {}

\* C8: choice 2 (choice 4) stores skip_all (continue) for the class of the
\* error; a stored decision stays as it is to the end of the run; and in an
\* interactive run a call for a class with a stored decision returns that
\* decision without a prompt, while a call for any other class prompts.
C8_RememberedDecisionIsSilent ==
    /\ [][(pc = "prompt" /\ call'.choice = "2") =>
            (call'.key \in DOMAIN error_decisions' /\ error_decisions'[call'.key] = "skip_all"
             /\ call'.returned = "skip_all")]_vars
    /\ [][(pc = "prompt" /\ call'.choice = "4") =>
            (call'.key \in DOMAIN error_decisions' /\ error_decisions'[call'.key] = "continue"
             /\ call'.returned = "continue")]_vars
    /\ [][\A k \in DOMAIN error_decisions :
            k \in DOMAIN error_decisions' /\ error_decisions'[k] = error_decisions[k]]_vars
    /\ [][(interactive' /\ pc # "prompt" /\ call' # NoCall) =>
            IF call'.key \in DOMAIN error_decisions
            THEN ~call'.prompted /\ call'.returned = error_decisions[call'.key]
                 /\ pc' # "prompt"
            ELSE call'.prompted /\ pc' = "prompt"]_vars

\* a failure of a class the user chose 2 for, resolved without a prompt,
\* after a failure of another class had prompted
C8_Witness ==
    /\ interactive
    /\ call.key \in DOMAIN error_decisions
    /\ ~call.prompted
    /\ call.returned = "skip_all"
    /\ error_decisions[call.key] = "skip_all"

\* the errors of the model and the decision memories over their classes
AllErrors ==
    {UrlError} \cup DownloadErrors \cup CodecErrors
        \cup {BothFailed(e, e2) : e \in CodecErrors, e2 \in CodecErrors}
ErrorKeys == {get_error_key(e) : e \in AllErrors}
Memories == UNION {[ks -> {"skip_all", "continue"}] : ks \in SUBSET ErrorKeys}

\* C9: with interactive off, handle_error_interactive returns skip_all for
\* every error and every memory; the run never stands at the prompt, never
\* stores a decision, and never gets abort from the policy.
C9_NonInteractiveSkipsAll ==
    ~interactive =>
        /\ \A e \in AllErrors, mem \in Memories :
              handle_error_interactive(e, FALSE, mem) = "skip_all"
        /\ pc # "prompt"
        /\ error_decisions = NoDecisions
        /\ call # NoCall => (call.returned = "skip_all" /\ ~call.prompted
                             /\ call.choice = "none")
        /\ result # "failure"

C9_Witness ==
    /\ ~interactive
    /\ call.returned = "skip_all"
    /\ call.key = "ValueError"

\* every phrase of msg occurs in text
ContainsAll(text, msg) == \A i \in 1..Len(msg) : Contains(text, msg[i])

\* C10: embed_metadata returns full exactly when the Full tier succeeds and
\* then tries nothing else; when Full fails and Simple succeeds it returns
\* simple_with_art exactly when artwork bytes were given and the artwork
\* pass succeeded, else simple; when both fail it raises one error whose
\* message contains both messages.
C10_TierOutcome ==
    embed_call.done =>
        LET r == embed_call.result
            full_ok == embed_call.full = NoError
            simple_ok == embed_call.simple = NoError
            art_ok == embed_call.artwork = "bytes" /\ embed_call.art = NoError
        IN /\ r.tried[1] = "full"
           /\ (r.value = "full") <=> full_ok
           /\ full_ok => (~r.raised /\ r.tried = <<"full">>)
           /\ ~full_ok => (r.tried[2] = "simple")
           /\ (~full_ok /\ simple_ok) =>
                 /\ ~r.raised
                 /\ r.value = IF art_ok THEN "simple_with_art" ELSE "simple"
           /\ (~full_ok /\ ~simple_ok) =>
                 /\ r.raised
                 /\ ContainsAll(r.error.msg, embed_call.full.msg)
                 /\ ContainsAll(r.error.msg, embed_call.simple.msg)
           /\ r.raised <=> (~full_ok /\ ~simple_ok)

\* Full failed, Simple succeeded, artwork bytes were given and the artwork
\* pass failed
C10_Witness ==
    /\ embed_call.done
    /\ embed_call.full # NoError
    /\ embed_call.simple = NoError
    /\ embed_call.artwork = "bytes"
    /\ embed_call.art # NoError
    /\ embed_call.result.value = "simple"

RECURSIVE AppliedUpTo(_, _)
\* the sum of the increments the threads 1..n have applied to field f
AppliedUpTo(n, f) ==
    IF n = 0 THEN 0 ELSE AppliedUpTo(n - 1, f) + threads[n].applied[f]

\* C11: in every state of every interleaving, each counter equals its
\* initial value 0 plus the sum of the increments applied to it, and the
\* counters no thread increments stay 0.
C11_NoLostUpdate ==
    /\ \A f \in StatFields : stats[f] = AppliedUpTo(MaxWorkers, f)
    /\ \A f \in DOMAIN stats \ StatFields : stats[f] = 0

\* every thread has made all its calls, and two threads have incremented the
\* same counter
C11_Witness ==
    /\ \A t \in Workers : threads[t].calls = MaxIncrements /\ threads[t].pc = "idle"
    /\ \E t1, t2 \in Workers :
        /\ t1 # t2
        /\ threads[t1].applied["downloaded"] >= 1
        /\ threads[t2].applied["downloaded"] >= 1
    /\ stats.downloaded >= 2

\* the tasks a pool thread is working on or may take
InWorker == {i \in DOMAIN tasks : tasks[i].state \in {"queued", "running"}}

\* C12: a step of a worker changes neither the episode list nor any
\* ep_data dict nor the manifest; a task is being embedded only while the
\* coordinating flow stands in its embed call for that task, after the
\* task's download succeeded and its file is on disk, and never two at once.
C12_WorkersOnlyDownload ==
    /\ [][(\E i \in InWorker : tasks'[i] # tasks[i]) =>
            /\ episodes' = episodes
            /\ entries_with_dates' = entries_with_dates
            /\ manifest' = manifest
            /\ stats' = stats]_vars
    /\ [](\A i \in DOMAIN tasks :
            tasks[i].state = "embedding" =>
                /\ pc = "embedding"
                /\ idx = i
                /\ tasks[i].outcome = "ok"
                /\ entries_with_dates[i].local_filename \in fs)
    /\ [](Cardinality({i \in DOMAIN tasks : tasks[i].state = "embedding"}) <= 1)
    /\ [][episodes' # episodes => pc \in {"confirm", "collect", "embedding"}]_vars

\* the coordinating flow embeds one episode while a worker is downloading
\* another and a third download is finished and waits to be collected
C12_Witness ==
    \E i, j, k \in DOMAIN tasks :
        /\ tasks[i].state = "embedding"
        /\ tasks[j].state = "running"
        /\ tasks[k].state = "done"
        /\ tasks[k].outcome = "ok"

\* the plan made before dispatch
Planned == PlanEpisodes(feed, limit)

\* C13: in the manifest of a parallel run every entry carries the
\* episode_number and local_filename planned before dispatch, and every
\* planned episode with an enclosure URL is there exactly once.
C13_ManifestKeepsThePlan ==
    (result = "success" /\ tasks # <<>>) =>
        /\ \A j \in 1..Len(manifest.episodes) :
              \E i \in 1..Len(Planned) :
                  /\ manifest.episodes[j].entry = Planned[i].entry
                  /\ manifest.episodes[j].episode_number = Planned[i].episode_number
                  /\ manifest.episodes[j].local_filename = Planned[i].local_filename
        /\ \A i \in 1..Len(Planned) :
              Planned[i].enclosure_url # "none" =>
                  Cardinality({j \in 1..Len(manifest.episodes) :
                                  manifest.episodes[j].entry = Planned[i].entry}) = 1

\* a parallel run has succeeded with three downloaded episodes that the
\* manifest lists in another order than the plan
C13_Witness ==
    /\ result = "success"
    /\ tasks # <<>>
    /\ Len(manifest.episodes) = MaxParallelEntries
    /\ stats.downloaded >= 2
    /\ manifest.episodes[1].episode_number > manifest.episodes[2].episode_number

RECURSIVE MissingUpTo(_)
\* the file names, in manifest order, of the first n episodes that have a
\* local filename, do not carry audio_missing and have no file on disk
MissingUpTo(n) ==
    IF n = 0 THEN <<>>
    ELSE LET ep == verify.episodes[n]
         IN IF ep.named /\ ~ep.audio_missing /\ ep.file = "absent"
            THEN Append(MissingUpTo(n - 1), n)
            ELSE MissingUpTo(n - 1)

\* the four lists of the report, one after the other
AllIssues ==
    verify.issues.missing_files \o verify.issues.unreadable
        \o verify.issues.missing_metadata \o verify.issues.repaired

\* C14: at every point of the scan missing_files lists exactly the scanned
\* episodes that have a local filename, no audio_missing and no file; with
\* repair off repaired stays empty; and no episode is listed twice.
C14_MissingFilesExact ==
    verify # <<>> =>
        /\ verify.issues.missing_files = MissingUpTo(verify.i - 1)
        /\ ~verify.repair => verify.issues.repaired = <<>>
        /\ \A a, b \in 1..Len(AllIssues) : a # b => AllIssues[a] # AllIssues[b]

\* 5 episodes, 2 of them without their file, were scanned with repair off
C14_Witness ==
    /\ verify # <<>>
    /\ verify.pc = "done"
    /\ ~verify.repair
    /\ Len(verify.episodes) = 5
    /\ Cardinality({k \in 1..5 : verify.episodes[k].file = "absent"}) = 2
    /\ Len(verify.issues.missing_files) = 2
    /\ \A k \in 1..5 : verify.episodes[k].named /\ ~verify.episodes[k].audio_missing

\* C15: verify_backup returns success exactly when the manifest exists and
\* missing_files, unreadable and missing_metadata are empty; an episode
\* whose repair succeeded is listed under repaired only, one whose repair
\* failed under missing_metadata.
C15_SuccessIffNoOpenIssue ==
    verify # <<>> =>
        /\ verify.pc = "done" =>
              ((verify.returned = "true") <=>
                  /\ verify.manifest_exists
                  /\ verify.issues.missing_files = <<>>
                  /\ verify.issues.unreadable = <<>>
                  /\ verify.issues.missing_metadata = <<>>)
        /\ verify.pc # "done" => verify.returned = "none"
        /\ verify.last.repair_tried =>
              IF verify.last.repair_ok
              THEN /\ verify.last.verdict = "repaired"
                   /\ verify.issues.repaired[Len(verify.issues.repaired)]
                        = verify.last.episode
              ELSE /\ verify.last.verdict = "missing_metadata"
                   /\ verify.issues.missing_metadata[Len(verify.issues.missing_metadata)]
                        = verify.last.episode

\* a scan that repaired an episode has returned success
C15_Witness ==
    /\ verify # <<>>
    /\ verify.pc = "done"
    /\ verify.returned = "true"
    /\ Len(verify.issues.repaired) >= 1

\* C16: manifest.json changes only in the step that ends a run with
\* success, and after a successful run its episodes are exactly the
\* ep_data dicts that run appended, in the order it appended them.
C16_ManifestIsOverwritten ==
    /\ [][manifest' # manifest => (pc' = "done" /\ result' = "success")]_vars
    /\ [](result = "success" =>
            /\ manifest.exists
            /\ Len(manifest.episodes) = Len(episodes)
            /\ \A j \in 1..Len(episodes) :
                  manifest.episodes[j] = entries_with_dates[episodes[j]])

\* a run with limit 1 has succeeded on the archive of a full run of
\* MaxRunEntries episodes and leaves a manifest of one episode
C16_Witness ==
    /\ last_run.valid
    /\ last_run.complete
    /\ last_run.limit = 0
    /\ Len(last_run.filenames) = MaxRunEntries
    /\ limit = 1
    /\ result = "success"
    /\ Len(manifest.episodes) = 1

\* C17: the run fails at the feed test exactly when the feed is flagged
\* malformed and has no entry; it has then made no directory, written no
\* file and fetched nothing but the feed; a malformed feed with an entry
\* goes through the setup and is planned like any other.
C17_MalformedEmptyFeedFails ==
    setup # <<>> =>
        /\ setup.pc = "failed" =>
              /\ setup.bozo /\ feed = <<>>
              /\ result = "failure"
              /\ ~setup.made_dirs
              /\ setup.files = {}
              /\ setup.fetches = <<"feed">>
              /\ pc = "idle"
        /\ (setup.bozo /\ feed = <<>>) => setup.pc \in {"start", "failed"}
        /\ feed # <<>> =>
              /\ setup.pc # "failed"
              /\ result # "failure"
              /\ pc = "confirm" =>
                    /\ entries_with_dates = PlanEpisodes(feed, limit)
                    /\ Len(entries_with_dates) >= 1

C17_Witness ==
    /\ setup # <<>>
    /\ setup.pc = "failed"
    /\ setup.dir_exists

\* C18: whether or not the copy of the feed and the cover could be
\* fetched, the setup reaches the episodes with no failure and plans the
\* same episodes; channel_artwork_data is the cover's bytes when that fetch
\* succeeded and None otherwise; an episode is embedded with its own
\* artwork when that was fetched and with channel_artwork_data otherwise.
C18_ArtworkFailuresFallBack ==
    setup # <<>> =>
        /\ setup.pc # "failed" => result = "none"
        /\ pc = "confirm" => entries_with_dates = PlanEpisodes(feed, limit)
        /\ (setup.channel_artwork_data = "channel_bytes") <=> (setup.cover = "ok")
        /\ setup.choice.episode # 0 =>
              /\ setup.choice.fetch = "failed" =>
                    setup.choice.artwork = setup.channel_artwork_data
              /\ setup.choice.fetch = "ok" => setup.choice.artwork = "episode_bytes"
              /\ setup.choice.fetch = "none" =>
                    setup.choice.artwork = setup.channel_artwork_data
              /\ (setup.cover # "ok" /\ setup.choice.fetch # "ok") =>
                    setup.choice.artwork = "none"

\* the copy of the feed could not be saved, the cover was fetched, and an
\* episode's own artwork could not: the episode gets the channel's
C18_Witness ==
    /\ setup # <<>>
    /\ setup.feed_saved = "failed"
    /\ setup.cover = "ok"
    /\ setup.choice.fetch = "failed"
    /\ setup.choice.artwork = "channel_bytes"
    /\ pc = "confirm"

\* C19: parse_duration raises no error, whatever its input.
C19_NeverRaises ==
    (duration_call # <<>> /\ duration_call.pc = "returned") =>
        duration_call.result.kind # "raised"

\* what parse_duration returns for the plain forms: an int unchanged,
\* the value of a string of decimal digits, the seconds of "01:02:03" and
\* of "02:03", None for a string with no digit
ParseDurationNamedForms ==
    (duration_call # <<>> /\ duration_call.pc = "returned") =>
        LET d == duration_call.input
            r == duration_call.result
        IN /\ d.type = "int" => r = Returns(d.value)
           /\ d = StrOf(<<"3", "0">>) => r = Returns(30)
           /\ d = StrOf(<<"0", "1", ":", "0", "2", ":", "0", "3">>) => r = Returns(3723)
           /\ d = StrOf(<<"0", "2", ":", "0", "3">>) => r = Returns(123)
           /\ (d.type = "str" /\ \A i \in 1..Len(d.chars) : d.chars[i] \notin IsDigitChars) =>
                 r = ReturnsNone

SafeName(s) ==
    /\ s # <<>>
    /\ \A i \in 1..Len(s) : s[i] \notin IllegalChars \cup Whitespace

Sanitized == sanitize_call # <<>> /\ sanitize_call.pc = "returned"

\* C20 (as stated): the name returned is not empty, has no illegal
\* character and no whitespace, and is at most max_length characters long.
C20_AtMostMaxLength ==
    Sanitized =>
        /\ SafeName(sanitize_call.result)
        /\ Len(sanitize_call.result) <= sanitize_call.max_length

\* C20 (amended): the name returned is not empty, has no illegal character
\* and no whitespace, and is "untitled" or at most max_length characters
\* long.
C20_UntitledOrAtMostMaxLength ==
    Sanitized =>
        /\ SafeName(sanitize_call.result)
        /\ \/ sanitize_call.result = Untitled
           \/ Len(sanitize_call.result) <= sanitize_call.max_length

\* a name with an illegal character and whitespace, longer than max_length,
\* was cut back to a hyphen
C20_Witness ==
    /\ Sanitized
    /\ Len(sanitize_call.name) > sanitize_call.max_length
    /\ \E i \in 1..Len(sanitize_call.name) : sanitize_call.name[i] \in IllegalChars
    /\ \E i \in 1..Len(sanitize_call.name) : sanitize_call.name[i] \in Whitespace
    /\ sanitize_call.result # Untitled
    /\ Len(sanitize_call.result) < sanitize_call.max_length
    /\ Len(sanitize_call.result) >= Len(Untitled)

Suspicious(url) ==
    \E p \in {"media.php", "pageID=", ".html", ".htm", "view="} : In(p, url)

HasAudioExtension(url) ==
    \E ext \in audio_extensions : In(ext, [i \in 1..Len(url) |-> Lower(url[i])])

\* C21: an empty URL is rejected; else a URL with a suspicious pattern is
\* rejected, audio extension or not; else a URL with an audio extension is
\* accepted; else a URL with a dot in its last segment is rejected; else it
\* is accepted.  ".../a.mp3" is valid and ".../media.php..." is rejected as
\* a PHP page.
C21_PriorityOrder ==
    (url_call # <<>> /\ url_call.pc = "returned") =>
        LET url == url_call.url
            r == url_call.result
        IN /\ r.valid <=>
                /\ url # <<>>
                /\ ~Suspicious(url)
                /\ HasAudioExtension(url) \/ ~In(".", LastSegment(url))
           /\ (url # <<>> /\ Suspicious(url) /\ HasAudioExtension(url)) => ~r.valid
           /\ url = <<"a", "/", "a", ".mp3">> => r = UrlVerdict(TRUE, "OK")
           /\ url = <<"a", "/", "media.php", "a">> =>
                 r = UrlVerdict(FALSE, "URL appears to be a PHP page, not an audio file")

\* a URL with both a suspicious pattern and an audio extension was rejected
C21_Witness ==
    /\ url_call # <<>>
    /\ url_call.pc = "returned"
    /\ Suspicious(url_call.url)
    /\ HasAudioExtension(url_call.url)
    /\ ~url_call.result.valid

\* C22: with skip_existing off, the download step of an episode whose audio
\* file is in the archive requests the audio again.
C22_NoSkipFetchesAgain ==
    [][(/\ pc = "download"
        /\ ~skip_existing
        /\ entries_with_dates[idx].local_filename \in fs
        /\ pc' # "download")
       => idx \in fetched']_vars

\* C23: the audio files counted as downloaded were requested in this run,
\* bytes_downloaded is the size of the files fetched and never negative,
\* and a step never lowers it.
C23_CountersFaithful ==
    [][/\ stats'.downloaded <= Cardinality(fetched')
       /\ stats'.bytes_downloaded = AudioBytes * stats'.downloaded
       /\ stats'.bytes_downloaded >= 0
       /\ (pc # "idle" /\ pc # "done") => stats'.bytes_downloaded >= stats.bytes_downloaded]_vars

\* C24: the feed has one item per episode; an item with an enclosure has
\* the local filename as url, behind the base URL and "/" when there is
\* one, the type audio/mpeg when the episode's type is absent or None, and
\* the length 0 when the episode's size is absent or None.
C24_EnclosureDefaults ==
    (import_call # <<>> /\ import_call.pc = "returned") =>
        LET eps == import_call.episodes
            r == import_call.result
        IN /\ ~r.raised
           /\ Len(r.items) = Len(eps)
           /\ \A i \in 1..Len(eps) :
                 eps[i].local_filename # "None" =>
                    /\ r.items[i].url =
                          IF import_call.base_url # "None"
                          THEN <<import_call.base_url, "/", eps[i].local_filename>>
                          ELSE <<eps[i].local_filename>>
                    /\ eps[i].enclosure_type \in {"absent", "None"} =>
                          r.items[i].type = "audio/mpeg"
                    /\ eps[i].enclosure_size \in {"absent", "None"} =>
                          r.items[i].length = "0"

Rejected(i) ==
    /\ entries_with_dates[i].enclosure_url # "none"
    /\ ~UrlAccepted(entries_with_dates[i].enclosure_url)

\* C25: in either mode an episode is at its download step, has a download
\* task or has had its audio requested only if the validator accepted its
\* URL; that holds whatever the error policy decided for a rejected URL.
C25_RejectedUrlNeverFetched ==
    /\ \A i \in fetched : UrlAccepted(entries_with_dates[i].enclosure_url)
    /\ pc = "download" => UrlAccepted(entries_with_dates[idx].enclosure_url)
    /\ \A i \in DOMAIN tasks :
          tasks[i].state # "none" => UrlAccepted(entries_with_dates[i].enclosure_url)

\* a rejected URL was answered with 'continue': the episode is listed
\* without audio, and the run went on to fetch another episode
C25_Witness ==
    /\ \E k \in 1..Len(episodes) : Rejected(episodes[k])
    /\ fetched # {}
    /\ tasks = <<>>

C27_FailedWorkerIsMetadataOnly ==
    /\ [](tasks # <<>> =>
            /\ pc # "prompt"
            /\ call = NoCall
            /\ pending = NoPending
            /\ error_decisions = NoDecisions)
    /\ [][\A i \in DOMAIN tasks :
            (/\ tasks[i] = Returned("error")
             /\ tasks'[i].state = "collected") =>
                /\ entries_with_dates'[i].audio_missing
                /\ entries_with_dates'[i].audio_error = "HTTPError"
                /\ stats' = increment(stats, "metadata_only", 1)
                /\ episodes' = Append(episodes, i)
                /\ pc' = "collect"]_vars
    /\ [](\A i \in DOMAIN tasks : tasks[i].outcome = "error" => tasks[i].state # "embedding")
    /\ [](result = "success" =>
            \A i \in DOMAIN tasks :
                /\ tasks[i].state \in {"none", "collected"}
                /\ tasks[i].outcome = "error" =>
                      \E k \in 1..Len(manifest.episodes) :
                          /\ manifest.episodes[k] = entries_with_dates[i]
                          /\ manifest.episodes[k].audio_missing)

\* in an interactive run a download failed and was collected first, and a
\* later one was collected and embedded; the run succeeded
C27_Witness ==
    /\ result = "success"
    /\ interactive
    /\ \E i, j \in DOMAIN tasks :
        /\ tasks[i].outcome = "error"
        /\ tasks[j].outcome = "ok"
        /\ \E k, l \in 1..Len(episodes) : k < l /\ episodes[k] = i /\ episodes[l] = j

\* C28: the artist written is the episode's author when the extracted
\* episode has one, and the channel's author when its author is None or
\* empty.
C28_ArtistFallsBackToChannel ==
    (tag_call # <<>> /\ tag_call.pc = "embedded") =>
        IF tag_call.author \notin {"absent", "None", ""}
        THEN tag_call.artist = tag_call.author
        ELSE tag_call.channel_author # "absent" => tag_call.artist = tag_call.channel_author

\* what verify_backup would list as missing_files for the manifest on disk
MissingAfterRun ==
    {k \in 1..Len(manifest.episodes) :
        /\ ~manifest.episodes[k].audio_missing
        /\ manifest.episodes[k].local_filename \notin fs}

\* C29: after a successful run in either mode, every episode of the
\* manifest that is not flagged audio_missing has its audio file in
\* episodes/.
C29_ListedAudioIsOnDisk ==
    result = "success" => (manifest.exists /\ MissingAfterRun = {})

\* a successful run whose manifest lists an episode with its audio and an
\* episode flagged audio_missing
C29_Witness ==
    /\ result = "success"
    /\ \E k, l \in 1..Len(manifest.episodes) :
        /\ manifest.episodes[k].audio_missing
        /\ manifest.episodes[k].local_filename \notin fs
        /\ ~manifest.episodes[l].audio_missing
        /\ manifest.episodes[l].local_filename \in fs

\* C30: the parallel run ends with the manifest episodes, the audio_missing
\* flags and the counters the sequential run ended with.
C30_SameOutcomeInBothModes ==
    (compare # <<>> /\ compare.phase = "second" /\ result = "success") =>
        OutcomeOfRun = compare.first

\* C31: the download tasks of a parallel run have pairwise distinct
\* destination files, no two workers are fetching for the same file, and
\* no file is fetched twice in the run.
C31_DistinctDestinations ==
    /\ \A i, j \in DOMAIN tasks :
          (i # j /\ tasks[i].state # "none" /\ tasks[j].state # "none") =>
              entries_with_dates[i].local_filename # entries_with_dates[j].local_filename
    /\ \A i, j \in Running :
          i # j => entries_with_dates[i].local_filename # entries_with_dates[j].local_filename
    /\ tasks # <<>> =>
          \A i, j \in fetched :
              i # j => entries_with_dates[i].local_filename # entries_with_dates[j].local_filename

\* two workers are fetching for the same destination file
TwoWorkersOneFile ==
    \E i, j \in Running :
        i # j /\ entries_with_dates[i].local_filename = entries_with_dates[j].local_filename


\* backup_podcast has returned True or False
RunReturned == pc = "done" /\ result \in {"success", "failure"}

\* the run is over and it has not returned: an exception has left
\* backup_podcast
RunRaised == pc = "done" /\ result = "raised"

\* every run that has begun comes to an end
RunEnds == (pc # "idle") ~> (pc = "done")

\* the prompt of handle_error_interactive is left by a valid choice or by the
\* end of the input only, and the end of the input is an abort
PromptLeftByValidChoice ==
    [][pc = "prompt" =>
          /\ pc' # "prompt"
          /\ call'.choice \in Choices \ {"other"}
          /\ call'.choice = "EOF" =>
                (call'.returned = "abort" /\ pc' = "done" /\ result' = "failure")]_vars

\* C32: every run that has begun, sequential or parallel, eventually ends,
\* and it ends by returning success or failure; the prompt of
\* handle_error_interactive repeats only on an invalid choice and the end of
\* the input there is an abort.
C32_EveryRunReturns ==
    /\ [](pc # "idle" => <>(pc = "done"))
    /\ [](pc = "done" => result \in {"success", "failure"})
    /\ [][pc = "prompt" =>
            /\ pc' # "prompt"
            /\ call'.choice \in Choices \ {"other"}
            /\ call'.choice = "EOF" => call'.returned = "abort"]_vars

====
